---------------------------- MODULE Spec2Model ----------------------------
(***************************************************************************)
(* A model of the OpenFoodFacts local cache (src/off_cache): the SQLite    *)
(* store of products, meals, meal items and metadata, the operations of    *)
(* cache_db.py on it, and the sync of update.py that streams the remote    *)
(* pages of off_client.py into one upsert.                                  *)
(*                                                                         *)
(* Every operation of cache_db.py opens its own connection.  A call is a   *)
(* short process of a session: its init_db() transaction, then one step    *)
(* per database access of its body, then the return to the caller.  The    *)
(* committed database is what every other connection reads; a write        *)
(* transaction works on a private copy until its commit and holds the      *)
(* single write lock of the database file meanwhile.                       *)
(***************************************************************************)
EXTENDS Integers, Sequences, FiniteSets, TLC

(***************************************************************************)
(* Bounds of the model.                                                    *)
(***************************************************************************)
MaxBatch == 2      \* records of one upsert batch
MaxCodes == 3      \* codes of one get_products_by_codes call
MaxPages == 2      \* pages one sync requests (--recent-pages)
MaxNow == 2        \* seconds the clock may advance
MaxMeals == 2      \* meals ever created
MaxMealCodes == 2  \* codes of one add_meal call

MaxLateNow == 5    \* the clock where the consumed items are read
Sessions == {1, 2}

(***************************************************************************)
(* Python values: None, int, str (a sequence of characters), dict (a       *)
(* function from keys to values), list (a sequence of values) and float.   *)
(* A float is held exactly, as its number of tenths: the floats of the     *)
(* model have at most one decimal, and so have their products with 100.    *)
(***************************************************************************)
PyNone == [k |-> "none"]
PyInt(n) == [k |-> "int", n |-> n]
PyStr(s) == [k |-> "str", s |-> s]
PyDict(d) == [k |-> "dict", d |-> d]
PyList(l) == [k |-> "list", l |-> l]
PyTenths(x) == [k |-> "float", x |-> x]

\* Python truthiness, as `x or default` tests it.
Truthy(v) ==
    CASE v.k = "none" -> FALSE
      [] v.k = "int" -> v.n # 0
      [] v.k = "str" -> v.s # <<>>
      [] v.k = "dict" -> DOMAIN v.d # {}
      [] v.k = "list" -> v.l # <<>>
      [] v.k = "float" -> v.x # 0
      [] OTHER -> TRUE

\* `x or default`
PyOr(v, default) == IF Truthy(v) THEN v ELSE default

\* dict.get(key): None when the key is absent.
Get(p, key) == IF key \in DOMAIN p THEN p[key] ELSE PyNone

Digits == <<"0", "1", "2", "3", "4", "5", "6", "7", "8", "9">>

DigitValue(c) == (CHOOSE i \in 1..10 : Digits[i] = c) - 1

IsDigit(c) == \E i \in 1..10 : Digits[i] = c

RECURSIVE IntToStr(_)
\* str(n) of a non-negative int: its decimal digits.
IntToStr(n) ==
    IF n < 10 THEN <<Digits[n + 1]>>
    ELSE IntToStr(n \div 10) \o <<Digits[(n % 10) + 1]>>

\* str(v)
Str(v) ==
    CASE v.k = "str" -> v.s
      [] v.k = "int" -> IntToStr(v.n)
      [] v.k = "none" -> <<"N", "o", "n", "e">>
      [] OTHER -> <<"{", "}">>

Whitespace == {" ", "\t", "\n"}

RECURSIVE LStrip(_)
LStrip(s) ==
    IF s # <<>> /\ Head(s) \in Whitespace THEN LStrip(Tail(s)) ELSE s

RECURSIVE RStrip(_)
RStrip(s) ==
    IF s # <<>> /\ s[Len(s)] \in Whitespace
    THEN RStrip(SubSeq(s, 1, Len(s) - 1))
    ELSE s

\* str.strip(): leading and trailing whitespace removed.
Strip(s) == RStrip(LStrip(s))

RECURSIVE DecimalValue(_)
DecimalValue(s) ==
    IF s = <<>> THEN 0
    ELSE 10 * DecimalValue(SubSeq(s, 1, Len(s) - 1)) + DigitValue(s[Len(s)])

\* _safe_int: None and "" give NULL; int(v) otherwise, NULL when int(v) raises
\* (a text that is not a decimal number, a dict).
_safe_int(v) ==
    CASE v.k = "none" -> PyNone
      [] v.k = "int" -> v
      [] v.k = "str" ->
            LET t == Strip(v.s)
            IN  IF t # <<>> /\ \A i \in 1..Len(t) : IsDigit(t[i])
                THEN PyInt(DecimalValue(t))
                ELSE PyNone
      [] OTHER -> PyNone

\* _safe_text: None gives "", str(v) otherwise.
_safe_text(v) == IF v.k = "none" THEN PyStr(<<>>) ELSE PyStr(Str(v))

\* json.dumps(v, ensure_ascii=False): the JSON text, represented by the value
\* it encodes (the text of a value that came out of a JSON response decodes
\* back to that value).
Dumps(v) == [k |-> "json", v |-> v]

\* Mutant of CleanCode: the .strip() is forgotten.
CleanCodeNoStrip(p) == Str(PyOr(Get(p, "code"), PyStr(<<>>)))

\* code = str(p.get("code") or "").strip()
CleanCode(p) == Strip(Str(PyOr(Get(p, "code"), PyStr(<<>>))))

\* The twelve values upsert_products binds to the INSERT for record p.
ProductRow(p) ==
    [ code               |-> CleanCode(p),
      last_modified_t    |-> _safe_int(Get(p, "last_modified_t")),
      product_name       |-> _safe_text(Get(p, "product_name")),
      brands             |-> _safe_text(Get(p, "brands")),
      categories         |-> _safe_text(Get(p, "categories")),
      countries          |-> _safe_text(Get(p, "countries")),
      nutriscore_grade   |-> _safe_text(Get(p, "nutriscore_grade")),
      ecoscore_grade     |-> _safe_text(Get(p, "ecoscore_grade")),
      nova_group         |-> _safe_int(Get(p, "nova_group")),
      ecoscore_data_json |-> Dumps(PyOr(Get(p, "ecoscore_data"), PyDict(<<>>))),
      nutriments_json    |-> Dumps(PyOr(Get(p, "nutriments"), PyDict(<<>>))),
      raw_json           |-> Dumps(PyDict(p)) ]

\* Mutant of DoUpdateSet: raw_json is missing from the SET list.
DoUpdateSetKeepsRaw(old, excluded) == [excluded EXCEPT !.raw_json = old.raw_json]

\* ON CONFLICT(code) DO UPDATE SET ...: every column but the key is taken
\* from the incoming (excluded) row.
DoUpdateSet(old, excluded) ==
    [ old EXCEPT
        !.last_modified_t    = excluded.last_modified_t,
        !.product_name       = excluded.product_name,
        !.brands             = excluded.brands,
        !.categories         = excluded.categories,
        !.countries          = excluded.countries,
        !.nutriscore_grade   = excluded.nutriscore_grade,
        !.ecoscore_grade     = excluded.ecoscore_grade,
        !.nova_group         = excluded.nova_group,
        !.ecoscore_data_json = excluded.ecoscore_data_json,
        !.nutriments_json    = excluded.nutriments_json,
        !.raw_json           = excluded.raw_json ]

\* Mutant of InsertOnConflict: a plain INSERT on a table without the key.
InsertAlways(tbl, row) == Append(tbl, row)

\* Mutant of InsertOnConflict: the table is emptied before the row is
\* written (a refresh that replaces the cache).
InsertIntoEmptied(tbl, row) == <<row>>

\* INSERT INTO products ... ON CONFLICT(code) DO UPDATE on a table held in
\* rowid order: the row with the code is updated in place, a new code is
\* appended.
InsertOnConflict(tbl, row) ==
    IF \E i \in 1..Len(tbl) : tbl[i].code = row.code
    THEN [i \in 1..Len(tbl) |->
            IF tbl[i].code = row.code THEN DoUpdateSet(tbl[i], row) ELSE tbl[i]]
    ELSE Append(tbl, row)

(***************************************************************************)
(* The raw product objects the remote source may deliver.                  *)
(***************************************************************************)
Text111 == <<"1", "1", "1">>

\* A full record, as the search endpoint returns it.
Payload1 ==
    [ last_modified_t  |-> PyInt(100),
      product_name     |-> PyStr(<<"M", "i", "l", "k">>),
      brands           |-> PyStr(<<"L", "u">>),
      categories       |-> PyStr(<<"d", "a", "i", "r", "y">>),
      countries        |-> PyStr(<<"F", "r">>),
      nutriscore_grade |-> PyStr(<<"a">>),
      ecoscore_grade   |-> PyStr(<<"b">>),
      nova_group       |-> PyInt(1),
      ecoscore_data    |-> PyDict([agribalyse |-> PyDict([co2_total |-> PyInt(2)])]),
      nutriments       |-> PyDict([sugars_100g |-> PyInt(0)]) ]

\* A later version of a record: every field differs from Payload1, and the
\* numbers come as text.
Payload2 ==
    [ last_modified_t  |-> PyStr(<<" ", "2", "0", "0">>),
      product_name     |-> PyStr(<<"S", "o", "j", "a">>),
      brands           |-> PyStr(<<"B", "j">>),
      categories       |-> PyStr(<<"v", "e", "g">>),
      countries        |-> PyStr(<<"B", "e">>),
      nutriscore_grade |-> PyStr(<<"B">>),
      ecoscore_grade   |-> PyStr(<<"A">>),
      nova_group       |-> PyStr(<<"4">>),
      ecoscore_data    |-> PyDict([grade |-> PyStr(<<"a">>)]),
      nutriments       |-> PyDict([sugars_100g |-> PyInt(7), salt_100g |-> PyInt(1)]) ]

\* An incomplete record: most keys are missing, one is not a number.
Payload3 ==
    [ last_modified_t  |-> PyStr(<<"n", "a">>),
      product_name     |-> PyInt(42),
      nutriments       |-> PyNone ]

WithCode(payload, code) ==
    [key \in DOMAIN payload \cup {"code"} |->
        IF key = "code" THEN code ELSE payload[key]]

Records ==
    { WithCode(Payload1, PyStr(Text111)),
      WithCode(Payload2, PyStr(Text111)),
      WithCode(Payload2, PyStr(<<" ", "1", "1", "1", " ">>)),
      WithCode(Payload1, PyStr(<<"2">>)),
      WithCode(Payload3, PyInt(2)),
      WithCode(Payload1, PyStr(<<"3">>)),
      Payload1,
      WithCode(Payload2, PyStr(<<>>)),
      WithCode(Payload3, PyStr(<<" ", "\t">>)) }

\* The records of the smaller specifications.
FewRecords ==
    { WithCode(Payload1, PyStr(Text111)),
      WithCode(Payload2, PyStr(Text111)),
      WithCode(Payload1, PyStr(<<"2">>)),
      Payload1,
      WithCode(Payload3, PyStr(<<" ", "\t">>)) }

SeqsUpTo(S, n) == UNION {[1..m -> S] : m \in 0..n}

Batches == SeqsUpTo(Records, MaxBatch)

(***************************************************************************)
(* The state.                                                              *)
(***************************************************************************)
VARIABLES
    tables,      \* the columns of the products table; {} when the schema is not created
    products,    \* the committed products table, in rowid order
    meta,        \* the committed meta table: key -> value
    meals,       \* the committed meals table, in rowid order
    meal_items,  \* the committed meal_items table, in rowid order
    meal_seq,    \* sqlite_sequence of meals: the largest id ever given
    now,         \* the clock, in seconds
    wlock,       \* the session holding the write lock, 0 when free
    memo,        \* what st.cache_data remembers: the result of each limit loaded
    pc,          \* per session: where its call stands
    op,          \* per session: the operation called
    arg,         \* per session: the argument of the call
    idx,         \* per session: records of the iterable consumed so far
    work,        \* per session: the products table as its open transaction sees it
    base,        \* per session: the committed store when the call started
    ret          \* per session: the running count, then what the call returned

vars == <<tables, products, meta, meals, meal_items, meal_seq, now, wlock, memo,
          pc, op, arg, idx, work, base, ret>>

store == <<tables, products, meta, meals, meal_items, meal_seq>>
call == <<pc, op, arg, idx, work, base, ret>>

SCHEMA_VERSION == <<"1">>

\* What a raised exception hands to the caller.
Raised(e) == [k |-> "raise", e |-> e]

\* A returned table (DataFrame): its rows in order.
Rows(r) == [k |-> "rows", rows |-> r]

SetKey(f, key, v) == [x \in DOMAIN f \cup {key} |-> IF x = key THEN v ELSE f[x]]

\* datetime('now'): the UTC date and the time of day, to the second.
DayLen == 2
DateTime(t) == [date |-> t \div DayLen, time |-> t % DayLen]

\* The columns of CREATE TABLE products.
ProductColumns ==
    { "code", "last_modified_t", "product_name", "brands", "categories", "countries",
      "nutriscore_grade", "ecoscore_grade", "nova_group", "ecoscore_data_json",
      "nutriments_json", "raw_json" }

\* Mutant of _ensure_column: the column is added by rebuilding the table,
\* without copying the rows.
_ensure_column_rebuilds(t, column) ==
    IF column \in t.columns THEN t
    ELSE [columns |-> t.columns \cup {column}, rows |-> <<>>]

\* _ensure_column on the products table t (its columns and its rows):
\* ALTER TABLE ... ADD COLUMN when table_info does not list the column; the
\* rows then hold NULL in it.
_ensure_column(t, column) ==
    IF column \in t.columns THEN t
    ELSE [columns |-> t.columns \cup {column},
          rows |-> [i \in 1..Len(t.rows) |->
                      [c \in DOMAIN t.rows[i] \cup {column} |->
                          IF c = column THEN PyNone ELSE t.rows[i][c]]]]

\* init_db on the products table: CREATE TABLE IF NOT EXISTS (columns = {}
\* stands for no table), then the three migrations.
init_db_products(columns, rows) ==
    IF columns = {} THEN [columns |-> ProductColumns, rows |-> <<>>]
    ELSE _ensure_column(
            _ensure_column(
               _ensure_column([columns |-> columns, rows |-> rows], "ecoscore_grade"),
               "nova_group"),
            "ecoscore_data_json")

\* Mutant of init_db: the meta table is created anew with the schema
\* version as its only row.
init_db_resets_meta(m) == [key \in {"schema_version"} |-> SCHEMA_VERSION]

\* init_db on the meta table: INSERT OR IGNORE of the schema version.
init_db(m) ==
    IF "schema_version" \in DOMAIN m THEN m
    ELSE SetKey(m, "schema_version", SCHEMA_VERSION)

Snapshot == [products |-> products, meta |-> meta, meals |-> meals,
             meal_items |-> meal_items]

Init ==
    /\ tables = {}
    /\ products = <<>>
    /\ meta = <<>>
    /\ meals = <<>>
    /\ meal_items = <<>>
    /\ meal_seq = 0
    /\ now = 0
    /\ wlock = 0
    /\ memo = <<>>
    /\ pc = [s \in Sessions |-> "idle"]
    /\ op = [s \in Sessions |-> "none"]
    /\ arg = [s \in Sessions |-> PyNone]
    /\ idx = [s \in Sessions |-> 0]
    /\ work = [s \in Sessions |-> <<>>]
    /\ base = [s \in Sessions |-> PyNone]
    /\ ret = [s \in Sessions |-> PyNone]

\* The clock advances.
Tick ==
    /\ now < MaxNow
    /\ now' = now + 1
    /\ UNCHANGED <<store, wlock, memo, call>>

\* The rows of products once init_db() has run: what the body of a call
\* works on.
Opened == init_db_products(tables, products).rows

\* A call enters: init_db() commits its own transaction, for which it needs
\* the write lock, and the body starts at `at`.
Enter(s, name, a, at, r) ==
    /\ pc[s] = "idle"
    /\ wlock = 0
    /\ tables' = init_db_products(tables, products).columns
    /\ products' = init_db_products(tables, products).rows
    /\ meta' = init_db(meta)
    /\ pc' = [pc EXCEPT ![s] = at]
    /\ op' = [op EXCEPT ![s] = name]
    /\ arg' = [arg EXCEPT ![s] = a]
    /\ idx' = [idx EXCEPT ![s] = 0]
    /\ ret' = [ret EXCEPT ![s] = r]
    /\ base' = [base EXCEPT ![s] = Snapshot]

\* The caller takes the result; the session is free for its next call.
Return(s) ==
    /\ pc[s] = "done"
    /\ pc' = [pc EXCEPT ![s] = "idle"]
    /\ op' = [op EXCEPT ![s] = "none"]
    /\ arg' = [arg EXCEPT ![s] = PyNone]
    /\ idx' = [idx EXCEPT ![s] = 0]
    /\ base' = [base EXCEPT ![s] = PyNone]
    /\ ret' = [ret EXCEPT ![s] = PyNone]
    /\ UNCHANGED <<store, now, memo, wlock, work>>

(***************************************************************************)
(* upsert_products(products): init_db(), then one transaction that         *)
(* consumes the iterable record by record and commits with the meta row.   *)
(* The iterable is a list (arg.left = 0), or the generator of              *)
(* fetch_recent_products with arg.left pages still to request.             *)
(***************************************************************************)
upsert_call(s, items) ==
    /\ Enter(s, "upsert_products", [items |-> items, left |-> 0, again |-> FALSE], "upsert", PyInt(0))
    /\ UNCHANGED <<meals, meal_items, meal_seq, now, memo, wlock, work>>

\* The caller repeats its upsert of one record (the add-by-barcode flow of
\* app.py upserts one fetched product per listed code, so a code listed
\* twice is upserted twice).
upsert_again(s) ==
    /\ pc[s] = "done"
    /\ op[s] = "upsert_products"
    /\ ret[s].k = "int"
    /\ Len(arg[s].items) = 1
    /\ ~arg[s].again
    /\ wlock = 0
    /\ tables' = init_db_products(tables, products).columns
    /\ products' = init_db_products(tables, products).rows
    /\ meta' = init_db(meta)
    /\ pc' = [pc EXCEPT ![s] = "upsert"]
    /\ arg' = [arg EXCEPT ![s].again = TRUE]
    /\ idx' = [idx EXCEPT ![s] = 0]
    /\ ret' = [ret EXCEPT ![s] = PyInt(0)]
    /\ base' = [base EXCEPT ![s] = Snapshot]
    /\ UNCHANGED <<meals, meal_items, meal_seq, now, memo, wlock, op, work>>

\* update.main: the generator is made (nothing is requested yet) and handed
\* to upsert_products.
sync_call(s, pages) ==
    /\ Enter(s, "sync", [items |-> <<>>, left |-> pages, again |-> FALSE], "upsert", PyInt(0))
    /\ UNCHANGED <<meals, meal_items, meal_seq, now, memo, wlock, work>>

\* What fetch_recent_products yields of one page: the products with a
\* truthy code.
Yielded(page) == SelectSeq(page, LAMBDA p : Truthy(Get(p, "code")))

\* The generator requests its next page when the loop asks for a record
\* and the page before is used up.
fetch_page(s, page) ==
    /\ pc[s] = "upsert"
    /\ idx[s] = Len(arg[s].items)
    /\ arg[s].left > 0
    /\ arg' = [arg EXCEPT ![s].items = @ \o Yielded(page), ![s].left = @ - 1]
    /\ UNCHANGED <<store, now, memo, wlock, pc, op, idx, work, base, ret>>

\* Mutant of upsert_record: the connection is in autocommit mode, every
\* INSERT is committed on its own.
upsert_record_autocommit(s) ==
    /\ pc[s] = "upsert"
    /\ idx[s] < Len(arg[s].items)
    /\ LET p == arg[s].items[idx[s] + 1]
       IN  IF CleanCode(p) = <<>>
           THEN UNCHANGED <<products, ret>>
           ELSE /\ wlock = 0
                /\ products' = InsertOnConflict(products, ProductRow(p))
                /\ ret' = [ret EXCEPT ![s] = PyInt(ret[s].n + 1)]
    /\ idx' = [idx EXCEPT ![s] = idx[s] + 1]
    /\ UNCHANGED <<tables, meta, meals, meal_items, meal_seq, now, memo, wlock, work,
                   pc, op, arg, base>>

\* One iteration of `for p in products`: a record without a code is skipped,
\* any other is written in the connection's transaction, which the first
\* INSERT opens.
upsert_record(s) ==
    /\ pc[s] = "upsert"
    /\ idx[s] < Len(arg[s].items)
    /\ LET p == arg[s].items[idx[s] + 1]
       IN  IF CleanCode(p) = <<>>
           THEN UNCHANGED <<wlock, work, ret>>
           ELSE /\ wlock \in {0, s}
                /\ wlock' = s
                /\ work' = [work EXCEPT ![s] =
                      InsertOnConflict(IF wlock = s THEN work[s] ELSE products,
                                       ProductRow(p))]
                /\ ret' = [ret EXCEPT ![s] = PyInt(ret[s].n + 1)]
    /\ idx' = [idx EXCEPT ![s] = idx[s] + 1]
    /\ UNCHANGED <<store, now, memo, pc, op, arg, base>>

\* Mutant of upsert_commit: the last-sync row is written only when a record
\* was written.
upsert_commit_skips_empty(s) ==
    /\ pc[s] = "upsert"
    /\ idx[s] = Len(arg[s].items)
    /\ arg[s].left = 0
    /\ wlock \in {0, s}
    /\ products' = IF wlock = s THEN work[s] ELSE products
    /\ meta' = IF wlock = s THEN SetKey(meta, "last_sync_utc", DateTime(now)) ELSE meta
    /\ wlock' = 0
    /\ pc' = [pc EXCEPT ![s] = "done"]
    /\ work' = [work EXCEPT ![s] = <<>>]
    /\ UNCHANGED <<tables, meals, meal_items, meal_seq, now, memo, op, arg, idx, base, ret>>

\* The iterable is exhausted: the last-sync row is written and the
\* transaction commits.
upsert_commit(s) ==
    /\ pc[s] = "upsert"
    /\ idx[s] = Len(arg[s].items)
    /\ arg[s].left = 0
    /\ wlock \in {0, s}
    /\ products' = IF wlock = s THEN work[s] ELSE products
    /\ meta' = SetKey(meta, "last_sync_utc", DateTime(now))
    /\ wlock' = 0
    /\ pc' = [pc EXCEPT ![s] = "done"]
    /\ work' = [work EXCEPT ![s] = <<>>]
    /\ UNCHANGED <<tables, meals, meal_items, meal_seq, now, memo, op, arg, idx, base, ret>>

\* Mutant of upsert_raise: the transaction is committed on the way out
\* (a `finally: conn.commit()`), the last-sync row is not written.
upsert_raise_commits(s) ==
    /\ pc[s] = "upsert"
    /\ idx[s] = Len(arg[s].items)
    /\ arg[s].left > 0
    /\ products' = IF wlock = s THEN work[s] ELSE products
    /\ wlock' = IF wlock = s THEN 0 ELSE wlock
    /\ pc' = [pc EXCEPT ![s] = "done"]
    /\ work' = [work EXCEPT ![s] = <<>>]
    /\ ret' = [ret EXCEPT ![s] = Raised("HTTPError")]
    /\ UNCHANGED <<tables, meta, meals, meal_items, meal_seq, now, memo, op, arg, idx, base>>

\* The request of the next page fails (raise_for_status, a network error):
\* the exception leaves the `with` block, which rolls the transaction back.
upsert_raise(s) ==
    /\ pc[s] = "upsert"
    /\ idx[s] = Len(arg[s].items)
    /\ arg[s].left > 0
    /\ wlock' = IF wlock = s THEN 0 ELSE wlock
    /\ pc' = [pc EXCEPT ![s] = "done"]
    /\ work' = [work EXCEPT ![s] = <<>>]
    /\ ret' = [ret EXCEPT ![s] = Raised("HTTPError")]
    /\ UNCHANGED <<store, now, memo, op, arg, idx, base>>

(***************************************************************************)
(* The reads.  Each is init_db() and one SELECT on the committed store.    *)
(***************************************************************************)
Min(a, b) == IF a < b THEN a ELSE b

MapSeq(f(_), s) == [i \in 1..Len(s) |-> f(s[i])]

\* The orders in which a SELECT may deliver n rows.
Perms(n) == {f \in [1..n -> 1..n] : \A i, j \in 1..n : f[i] = f[j] => i = j}

\* Mutant of DescOrdered: NULL is taken as the largest value (NULLS FIRST).
DescOrderedNullsFirst(a, b) == a.k = "none" \/ (b.k = "int" /\ a.n >= b.n)

\* ORDER BY x DESC on two values: NULL is the smallest value of SQLite, so it
\* comes last.
DescOrdered(a, b) == b.k = "none" \/ (a.k = "int" /\ a.n >= b.n)

\* ... ORDER BY last_modified_t DESC LIMIT ?: the rows of tbl in an order
\* the sort allows (rows of equal key come in any order), cut to the limit.
OrderByModifiedLimit(tbl, limit) ==
    { [i \in 1..Min(limit, Len(tbl)) |-> tbl[f[i]]] :
        f \in { g \in Perms(Len(tbl)) :
                  \A i, j \in 1..Len(tbl) :
                     i < j => DescOrdered(tbl[g[i]].last_modified_t,
                                          tbl[g[j]].last_modified_t) } }

\* json.loads(row) if row else {}: of a stored text; a NULL gives {}.
Loads(text) == IF text.k = "json" THEN text.v ELSE PyDict(<<>>)

\* json.loads raises on a text that is not JSON.
LoadsRaises(text) == text.k = "text"

\* float(v): of a float, of an int, or of a text that is a number (the texts
\* of the model that are numbers are runs of digits); it raises otherwise.
CanFloat(v) ==
    v.k \in {"int", "float"} \/ (v.k = "str" /\ _safe_int(v).k = "int")

PyFloat(v) == IF v.k = "float" THEN v ELSE PyTenths(10 * _safe_int(v).n)

\* Mutant of nutr_value: an absent key is taken for 0.
nutr_value_or_zero(row, key) ==
    LET obj == Loads(row)
    IN  IF obj.k # "dict" THEN PyNone
        ELSE LET v == PyOr(Get(obj.d, key), PyInt(0))
             IN  IF ~CanFloat(v) THEN PyNone ELSE PyFloat(v)

\* nutr_value(row, key): the nutriment as a float, None when the key is
\* absent or anything raises.
nutr_value(row, key) ==
    LET obj == Loads(row)
    IN  IF LoadsRaises(row) \/ obj.k # "dict" THEN PyNone
        ELSE LET v == Get(obj.d, key)
             IN  IF v.k = "none" \/ ~CanFloat(v) THEN PyNone ELSE PyFloat(v)

\* Mutant of carbon_from_ecoscore: the conversion to g per 100g is left out.
carbon_from_ecoscore_unscaled(row) ==
    LET obj == Loads(row)
    IN  IF obj.k # "dict" THEN PyNone
        ELSE IF "agribalyse" \notin DOMAIN obj.d THEN PyNone
        ELSE IF obj.d["agribalyse"].k # "dict" THEN PyNone
        ELSE LET co2_total == Get(obj.d["agribalyse"].d, "co2_total")
             IN  IF co2_total.k = "none" \/ ~CanFloat(co2_total) THEN PyNone
                 ELSE PyFloat(co2_total)

\* carbon_from_ecoscore(row): agribalyse.co2_total * 100, None when absent
\* or anything raises.
carbon_from_ecoscore(row) ==
    LET obj == Loads(row)
    IN  IF LoadsRaises(row) \/ obj.k # "dict" THEN PyNone
        ELSE IF "agribalyse" \notin DOMAIN obj.d THEN PyNone
        ELSE IF obj.d["agribalyse"].k # "dict" THEN PyNone
        ELSE LET co2_total == Get(obj.d["agribalyse"].d, "co2_total")
             IN  IF co2_total.k = "none" \/ ~CanFloat(co2_total) THEN PyNone
                 ELSE PyTenths(PyFloat(co2_total).x * 100)

\* One row of read_products_dataframe: the selected columns, the nutriment
\* columns, and the carbon footprint (the nutriment, else the ecoscore one).
ProductFrameRow(row) ==
    LET carbon_nutr == nutr_value(row.nutriments_json, "carbon-footprint_100g")
    IN  [ code             |-> row.code,
          last_modified_t  |-> row.last_modified_t,
          product_name     |-> row.product_name,
          brands           |-> row.brands,
          categories       |-> row.categories,
          countries        |-> row.countries,
          nutriscore_grade |-> row.nutriscore_grade,
          ecoscore_grade   |-> row.ecoscore_grade,
          nova_group       |-> row.nova_group,
          sugars_100g      |-> nutr_value(row.nutriments_json, "sugars_100g"),
          salt_100g        |-> nutr_value(row.nutriments_json, "salt_100g"),
          energy_kcal_100g |-> nutr_value(row.nutriments_json, "energy-kcal_100g"),
          carbon_footprint_gco2e_100g |->
              IF carbon_nutr.k = "none"
              THEN carbon_from_ecoscore(row.ecoscore_data_json)
              ELSE carbon_nutr ]

DEFAULT_LIMIT == 200000

\* read_products_dataframe(limit) on the products table tbl: the results it
\* may return.
read_products_dataframe(tbl, limit) ==
    { MapSeq(ProductFrameRow, r) : r \in OrderByModifiedLimit(tbl, limit) }

Upper == <<"A", "B", "C", "D", "E", "F", "G", "H", "I", "J", "K", "L", "M",
           "N", "O", "P", "Q", "R", "S", "T", "U", "V", "W", "X", "Y", "Z">>
Lower == <<"a", "b", "c", "d", "e", "f", "g", "h", "i", "j", "k", "l", "m",
           "n", "o", "p", "q", "r", "s", "t", "u", "v", "w", "x", "y", "z">>

\* LIKE folds the case of the ASCII letters only.
Fold(c) ==
    IF \E i \in 1..26 : Upper[i] = c
    THEN Lower[CHOOSE i \in 1..26 : Upper[i] = c]
    ELSE c

RECURSIVE Like(_, _)
\* text LIKE pattern: % matches any run of characters, _ any one character.
Like(pattern, text) ==
    IF pattern = <<>> THEN text = <<>>
    ELSE IF Head(pattern) = "%"
         THEN Like(Tail(pattern), text) \/ (text # <<>> /\ Like(pattern, Tail(text)))
    ELSE IF text = <<>> THEN FALSE
    ELSE IF Head(pattern) = "_" THEN Like(Tail(pattern), Tail(text))
    ELSE Fold(Head(pattern)) = Fold(Head(text)) /\ Like(Tail(pattern), Tail(text))

SearchRow(row) ==
    [ code |-> row.code, product_name |-> row.product_name, brands |-> row.brands,
      nutriscore_grade |-> row.nutriscore_grade,
      ecoscore_grade |-> row.ecoscore_grade, nova_group |-> row.nova_group,
      raw_json |-> row.raw_json ]

\* search_products_by_name(query, limit) on tbl: the results it may return.
search_products_by_name(tbl, query, limit) ==
    LET q == Strip(query)
        hit(row) == /\ row.product_name.k = "str"
                    /\ Like(<<"%">> \o q \o <<"%">>, row.product_name.s)
    IN  IF q = <<>> THEN {<<>>}
        ELSE { MapSeq(SearchRow, r) :
                 r \in OrderByModifiedLimit(SelectSeq(tbl, hit), limit) }

\* Mutant of Cleaned: the filter tests str(c), not str(c).strip().
CleanedKeepsBlank(codes) ==
    SelectSeq(MapSeq(LAMBDA c : Strip(Str(c)), codes), LAMBDA c : TRUE)

\* cleaned = [str(c).strip() for c in codes if str(c).strip()]
Cleaned(codes) ==
    SelectSeq(MapSeq(LAMBDA c : Strip(Str(c)), codes), LAMBDA c : c # <<>>)

\* order = {code: i for i, code in enumerate(cleaned)}: a code listed more
\* than once keeps its last position.
OrderOf(cleaned, code) ==
    CHOOSE i \in 1..Len(cleaned) :
        cleaned[i] = code /\ \A j \in (i + 1)..Len(cleaned) : cleaned[j] # code

\* The place of a new row in a sorted frame: behind every row whose key is
\* not larger.
InsertByOrder(sorted, row, cleaned) ==
    LET n == Cardinality({i \in 1..Len(sorted) :
                 OrderOf(cleaned, sorted[i].code) <= OrderOf(cleaned, row.code)})
    IN  SubSeq(sorted, 1, n) \o <<row>> \o SubSeq(sorted, n + 1, Len(sorted))

RECURSIVE SortByOrder(_, _)
\* df.sort_values(by="_order", kind="stable")
SortByOrder(rows, cleaned) ==
    IF rows = <<>> THEN <<>>
    ELSE InsertByOrder(SortByOrder(SubSeq(rows, 1, Len(rows) - 1), cleaned),
                       rows[Len(rows)], cleaned)

CodesRow(row) ==
    [ code |-> row.code, product_name |-> row.product_name, brands |-> row.brands,
      raw_json |-> row.raw_json ]

\* Mutant of KeepOrder: the frame is returned as the SELECT delivered it.
KeepSelectOrder(df, cleaned) == df

\* The frame after the sort that restores the order of `codes`.
KeepOrder(df, cleaned) == SortByOrder(df, cleaned)

\* get_products_by_codes(codes) on tbl: the results it may return, the
\* SELECT ... WHERE code IN (...) delivering its rows in any order.
get_products_by_codes(tbl, codes) ==
    LET cleaned == Cleaned(codes)
        hits == SelectSeq(tbl, LAMBDA row : \E i \in 1..Len(cleaned) : cleaned[i] = row.code)
    IN  IF cleaned = <<>> THEN {<<>>}
        ELSE { KeepOrder([i \in 1..Len(hits) |-> CodesRow(hits[f[i]])], cleaned) :
                 f \in Perms(Len(hits)) }

Limits == {0, 1, 2, DEFAULT_LIMIT}

Queries == { <<"m", "I">>, <<" ", "O", "j", " ">>, <<" ">>, <<"_", "2">>, <<"z">> }

CodeInputs ==
    { PyStr(Text111), PyStr(<<" ", "1", "1", "1">>), PyStr(<<"2">>), PyInt(3),
      PyStr(<<"9">>), PyStr(<<" ">>) }

read_products_call(s, limit) ==
    /\ pc[s] = "idle"
    /\ \E r \in read_products_dataframe(Opened, limit) :
          Enter(s, "read_products_dataframe", PyInt(limit), "done", Rows(r))
    /\ UNCHANGED <<meals, meal_items, meal_seq, now, memo, wlock, work>>

search_call(s, query, limit) ==
    /\ pc[s] = "idle"
    /\ \E r \in search_products_by_name(Opened, query, limit) :
          Enter(s, "search_products_by_name",
                [query |-> query, limit |-> limit], "done", Rows(r))
    /\ UNCHANGED <<meals, meal_items, meal_seq, now, memo, wlock, work>>

get_codes_call(s, codes) ==
    /\ pc[s] = "idle"
    /\ \E r \in get_products_by_codes(Opened, codes) :
          Enter(s, "get_products_by_codes", codes, "done", Rows(r))
    /\ UNCHANGED <<meals, meal_items, meal_seq, now, memo, wlock, work>>

\* A call made while another connection holds the write lock: init_db()
\* waits for the lock and gives up with "database is locked".
locked_call(s, name) ==
    /\ pc[s] = "idle"
    /\ wlock \notin {0, s}
    /\ pc' = [pc EXCEPT ![s] = "done"]
    /\ op' = [op EXCEPT ![s] = name]
    /\ ret' = [ret EXCEPT ![s] = Raised("OperationalError")]
    /\ base' = [base EXCEPT ![s] = Snapshot]
    /\ UNCHANGED <<store, now, memo, wlock, arg, idx, work>>

ReadOps == {"read_products_dataframe", "search_products_by_name",
            "get_products_by_codes"}

Reads(s) ==
    \/ \E limit \in Limits : read_products_call(s, limit)
    \/ \E query \in Queries, limit \in Limits : search_call(s, query, limit)
    \/ \E codes \in SeqsUpTo(CodeInputs, MaxCodes) : get_codes_call(s, codes)

(***************************************************************************)
(* Meals.  A meal is a row of meals and its rows of meal_items.            *)
(***************************************************************************)
\* INTEGER PRIMARY KEY AUTOINCREMENT: one more than the largest id ever given.
NextMealId(seq) == seq + 1

RECURSIVE Distinct(_)
Distinct(codes) ==
    IF codes = <<>> THEN <<>>
    ELSE LET front == Distinct(SubSeq(codes, 1, Len(codes) - 1))
         IN  IF \E i \in 1..Len(front) : front[i] = codes[Len(codes)]
             THEN front ELSE Append(front, codes[Len(codes)])

\* Mutant of ItemsOf: a code listed twice is stored once.
ItemsOfDistinct(meal_id, codes) ==
    [i \in 1..Len(Distinct(codes)) |-> [meal_id |-> meal_id, code |-> Distinct(codes)[i]]]

\* executemany("INSERT INTO meal_items ..."): one row per code.
ItemsOf(meal_id, codes) == [i \in 1..Len(codes) |-> [meal_id |-> meal_id, code |-> codes[i]]]

\* add_meal(consumed_codes): a ValueError when no code is left after the
\* cleaning, else the meal and its items in one transaction.
add_meal(s, consumed_codes) ==
    /\ pc[s] = "idle"
    /\ LET codes == Cleaned(consumed_codes)
           meal_id == NextMealId(meal_seq)
       IN  IF codes = <<>>
           THEN /\ Enter(s, "add_meal", consumed_codes, "done", Raised("ValueError"))
                /\ UNCHANGED <<meals, meal_items, meal_seq>>
           ELSE /\ meal_seq < MaxMeals
                /\ Enter(s, "add_meal", consumed_codes, "done", PyInt(meal_id))
                /\ meals' = Append(meals, [id |-> meal_id, created_at_utc |-> DateTime(now)])
                /\ meal_items' = meal_items \o ItemsOf(meal_id, codes)
                /\ meal_seq' = meal_id
    /\ UNCHANGED <<now, memo, wlock, work>>

\* delete_meals_today, its SELECT: the ids of the meals of the current UTC
\* day; 0 is returned when there is none.
delete_today_call(s) ==
    /\ pc[s] = "idle"
    /\ LET ids == {meals[i].id : i \in {j \in 1..Len(meals) :
                       meals[j].created_at_utc.date = DateTime(now).date}}
       IN  IF ids = {}
           THEN Enter(s, "delete_meals_today", ids, "done", PyInt(0))
           ELSE Enter(s, "delete_meals_today", ids, "delete_today", PyNone)
    /\ UNCHANGED <<meals, meal_items, meal_seq, now, memo, wlock, work>>

\* Mutant of delete_today_exec: the DELETE of the items is missing.
delete_today_exec_meals_only(s) ==
    /\ pc[s] = "delete_today"
    /\ wlock = 0
    /\ meals' = SelectSeq(meals, LAMBDA m : m.id \notin arg[s])
    /\ ret' = [ret EXCEPT ![s] = PyInt(Cardinality(arg[s]))]
    /\ pc' = [pc EXCEPT ![s] = "done"]
    /\ UNCHANGED <<tables, products, meta, meal_items, meal_seq, now, memo, wlock, op, arg,
                   idx, work, base>>

\* Mutant of delete_today_exec: the WHERE on the ids of today's meals is
\* missing, every meal and item is deleted.
delete_today_exec_every_day(s) ==
    /\ pc[s] = "delete_today"
    /\ wlock = 0
    /\ meal_items' = <<>>
    /\ meals' = <<>>
    /\ ret' = [ret EXCEPT ![s] = PyInt(Cardinality(arg[s]))]
    /\ pc' = [pc EXCEPT ![s] = "done"]
    /\ UNCHANGED <<tables, products, meta, meal_seq, now, memo, wlock, op, arg, idx, work, base>>

\* delete_meals_today, its transaction: the items of the selected meals,
\* then the meals.
delete_today_exec(s) ==
    /\ pc[s] = "delete_today"
    /\ wlock = 0
    /\ meal_items' = SelectSeq(meal_items, LAMBDA it : it.meal_id \notin arg[s])
    /\ meals' = SelectSeq(meals, LAMBDA m : m.id \notin arg[s])
    /\ ret' = [ret EXCEPT ![s] = PyInt(Cardinality(arg[s]))]
    /\ pc' = [pc EXCEPT ![s] = "done"]
    /\ UNCHANGED <<tables, products, meta, meal_seq, now, memo, wlock, op, arg, idx, work, base>>

\* delete_all_meals, its SELECT COUNT(1).
delete_all_call(s) ==
    /\ Enter(s, "delete_all_meals", PyNone, "delete_all", PyInt(Len(meals)))
    /\ UNCHANGED <<meals, meal_items, meal_seq, now, memo, wlock, work>>

\* Mutant of delete_all_exec: the sequence of the meal ids is reset with the
\* table (a DELETE FROM sqlite_sequence, or an id that is not AUTOINCREMENT).
delete_all_exec_resets_sequence(s) ==
    /\ pc[s] = "delete_all"
    /\ wlock = 0
    /\ meal_items' = <<>>
    /\ meals' = <<>>
    /\ meal_seq' = 0
    /\ pc' = [pc EXCEPT ![s] = "done"]
    /\ UNCHANGED <<tables, products, meta, now, memo, wlock, op, arg, idx, work,
                   base, ret>>

\* delete_all_meals, its transaction: every item, then every meal.
delete_all_exec(s) ==
    /\ pc[s] = "delete_all"
    /\ wlock = 0
    /\ meal_items' = <<>>
    /\ meals' = <<>>
    /\ pc' = [pc EXCEPT ![s] = "done"]
    /\ UNCHANGED <<tables, products, meta, meal_seq, now, memo, wlock, op, arg, idx, work,
                   base, ret>>

\* Mutant of DeleteItemsWhereCode: only the first item with the code is
\* deleted (a DELETE ... LIMIT 1).
DeleteFirstItemWhereCode(items, c) ==
    IF \E i \in 1..Len(items) : items[i].code = c
    THEN LET k == CHOOSE i \in 1..Len(items) :
                      /\ items[i].code = c
                      /\ \A j \in 1..(i - 1) : items[j].code # c
         IN  SubSeq(items, 1, k - 1) \o SubSeq(items, k + 1, Len(items))
    ELSE items

\* DELETE FROM meal_items WHERE code = ?: the items that stay.
DeleteItemsWhereCode(items, c) == SelectSeq(items, LAMBDA it : it.code # c)

\* Mutant of DeleteEmptyMeals: the cleanup is missing.
DeleteNoMeals(ms, items) == ms

\* The meals that still have an item:
\* DELETE FROM meals WHERE id NOT IN (SELECT DISTINCT meal_id FROM meal_items)
DeleteEmptyMeals(ms, items) ==
    SelectSeq(ms, LAMBDA m : \E i \in 1..Len(items) : items[i].meal_id = m.id)

\* delete_code_from_all_meals(code): 0 for a blank code, else the items with
\* the code are deleted, then the meals left without item, in one
\* transaction.
delete_code_from_all_meals(s, code) ==
    /\ pc[s] = "idle"
    /\ LET c == Strip(Str(PyOr(code, PyStr(<<>>))))
           kept == DeleteItemsWhereCode(meal_items, c)
       IN  IF c = <<>>
           THEN /\ Enter(s, "delete_code_from_all_meals", code, "done", PyInt(0))
                /\ UNCHANGED <<meals, meal_items>>
           ELSE /\ Enter(s, "delete_code_from_all_meals", code, "done",
                         PyInt(Len(meal_items) - Len(kept)))
                /\ meal_items' = kept
                /\ meals' = DeleteEmptyMeals(meals, kept)
    /\ UNCHANGED <<meal_seq, now, memo, wlock, work>>

(***************************************************************************)
(* The consumed items: meal_items JOIN meals JOIN products.                *)
(***************************************************************************)
\* The seconds a datetime text stands for; the texts order as they do.
Instant(dt) == dt.date * DayLen + dt.time

\* WHERE date(m.created_at_utc) = date('now'): the ids of the meals of the
\* UTC day of t.
TodayWindow(ms, t) ==
    {ms[i].id : i \in {j \in 1..Len(ms) : ms[j].created_at_utc.date = DateTime(t).date}}

\* Mutant of SinceWindow: the comparison is strict.
SinceWindowStrict(ms, t, days) ==
    {ms[i].id : i \in {j \in 1..Len(ms) :
                          ms[j].created_at_utc.date > DateTime(t).date - days}}

\* WHERE date(m.created_at_utc) >= date('now', '-<days> day'): the ids of the
\* meals whose UTC day is not before the UTC day of t, less `days` days.
SinceWindow(ms, t, days) ==
    {ms[i].id : i \in {j \in 1..Len(ms) :
                          ms[j].created_at_utc.date >= DateTime(t).date - days}}

\* One joined row: the columns of the SELECT.
ConsumedRow(it, m, p) ==
    [ meal_id            |-> it.meal_id,
      created_at_utc     |-> m.created_at_utc,
      code               |-> p.code,
      product_name       |-> p.product_name,
      brands             |-> p.brands,
      nutriscore_grade   |-> p.nutriscore_grade,
      ecoscore_grade     |-> p.ecoscore_grade,
      nova_group         |-> p.nova_group,
      categories         |-> p.categories,
      countries          |-> p.countries,
      ecoscore_data_json |-> p.ecoscore_data_json,
      nutriments_json    |-> p.nutriments_json,
      raw_json           |-> p.raw_json ]

\* Mutant of ConsumedJoin: a SELECT DISTINCT, one row per meal and code (the
\* first item of a code in a meal), not one per item.
ConsumedJoinDistinct(ms, items, tbl, ids) ==
    LET first == SelectSeq([j \in 1..Len(items) |-> [it |-> items[j], j |-> j]],
                     LAMBDA x : \A k \in 1..(x.j - 1) :
                                  items[k] # x.it)
        hit == SelectSeq(first, LAMBDA x :
                   /\ x.it.meal_id \in ids
                   /\ \E i \in 1..Len(ms) : ms[i].id = x.it.meal_id
                   /\ \E i \in 1..Len(tbl) : tbl[i].code = x.it.code)
    IN  [j \in 1..Len(hit) |->
            ConsumedRow(hit[j].it,
                        ms[CHOOSE i \in 1..Len(ms) : ms[i].id = hit[j].it.meal_id],
                        tbl[CHOOSE i \in 1..Len(tbl) : tbl[i].code = hit[j].it.code])]

\* FROM meal_items mi JOIN meals m ON m.id = mi.meal_id
\*                    JOIN products p ON p.code = mi.code, for the meals of
\* ids: one row per item that has its meal and its product.
ConsumedJoin(ms, items, tbl, ids) ==
    LET hit == SelectSeq(items, LAMBDA it :
                   /\ it.meal_id \in ids
                   /\ \E i \in 1..Len(ms) : ms[i].id = it.meal_id
                   /\ \E i \in 1..Len(tbl) : tbl[i].code = it.code)
    IN  [j \in 1..Len(hit) |->
            ConsumedRow(hit[j],
                        ms[CHOOSE i \in 1..Len(ms) : ms[i].id = hit[j].meal_id],
                        tbl[CHOOSE i \in 1..Len(tbl) : tbl[i].code = hit[j].code])]

\* ORDER BY m.created_at_utc DESC: the joined rows in an order the sort
\* allows (rows of one meal, or of meals of the same second, in any order).
OrderByCreatedDesc(rows) ==
    { [i \in 1..Len(rows) |-> rows[f[i]]] :
        f \in { g \in Perms(Len(rows)) :
                  \A i, j \in 1..Len(rows) :
                     i < j => Instant(rows[g[i]].created_at_utc)
                                 >= Instant(rows[g[j]].created_at_utc) } }

\* One row of the frame returned: the carbon footprint added (the
\* nutriment, else the ecoscore one), ecoscore_data_json dropped.
ConsumedFrameRow(row) ==
    LET carbon_nutr == nutr_value(row.nutriments_json, "carbon-footprint_100g")
    IN  [ meal_id            |-> row.meal_id,
          created_at_utc     |-> row.created_at_utc,
          code               |-> row.code,
          product_name       |-> row.product_name,
          brands             |-> row.brands,
          nutriscore_grade   |-> row.nutriscore_grade,
          ecoscore_grade     |-> row.ecoscore_grade,
          nova_group         |-> row.nova_group,
          categories         |-> row.categories,
          countries          |-> row.countries,
          nutriments_json    |-> row.nutriments_json,
          raw_json           |-> row.raw_json,
          carbon_footprint_gco2e_100g |->
              IF carbon_nutr.k = "none"
              THEN carbon_from_ecoscore(row.ecoscore_data_json)
              ELSE carbon_nutr ]

\* read_consumed_items_today() at time t: the results it may return.
read_consumed_items_today(ms, items, tbl, t) ==
    { [i \in 1..Len(r) |-> ConsumedFrameRow(r[i])] :
        r \in OrderByCreatedDesc(ConsumedJoin(ms, items, tbl, TodayWindow(ms, t))) }

\* read_consumed_items_since(days) at time t, days >= 1: the results it may
\* return.
read_consumed_items_since(ms, items, tbl, t, days) ==
    { [i \in 1..Len(r) |-> ConsumedFrameRow(r[i])] :
        r \in OrderByCreatedDesc(ConsumedJoin(ms, items, tbl, SinceWindow(ms, t, days))) }

\* The call of read_consumed_items_today; arg keeps the time of its SELECT.
read_consumed_today_call(s) ==
    /\ pc[s] = "idle"
    /\ \E r \in read_consumed_items_today(meals, meal_items, Opened, now) :
          Enter(s, "read_consumed_items_today", [now |-> now], "done", Rows(r))
    /\ UNCHANGED <<meals, meal_items, meal_seq, now, memo, wlock, work>>

\* The call of read_consumed_items_since(days): a ValueError for days < 1;
\* arg keeps `days` and the time of the SELECT.
read_consumed_since_call(s, days) ==
    /\ pc[s] = "idle"
    /\ IF days < 1
       THEN Enter(s, "read_consumed_items_since", [days |-> days, now |-> now], "done",
                  Raised("ValueError"))
       ELSE \E r \in read_consumed_items_since(meals, meal_items, Opened, now, days) :
               Enter(s, "read_consumed_items_since", [days |-> days, now |-> now], "done",
                     Rows(r))
    /\ UNCHANGED <<meals, meal_items, meal_seq, now, memo, wlock, work>>

\* read_meta(): init_db(), then every row of meta as a dict.
read_meta_call(s) ==
    /\ Enter(s, "read_meta", PyNone, "done", PyDict(init_db(meta)))
    /\ UNCHANGED <<meals, meal_items, meal_seq, now, memo, wlock, work>>

(***************************************************************************)
(* A store written before: by this version, or by an older one whose       *)
(* products table lacks some of the columns that init_db() adds.           *)
(***************************************************************************)
\* The columns that came after the first version: those init_db() ensures.
NewerColumns == {"ecoscore_grade", "nova_group", "ecoscore_data_json"}

\* A row as a table of the columns cols holds it.
Restrict(row, cols) == [c \in cols |-> row[c]]

\* The meta rows found in a store written before: none, the marker of an
\* older version, or the marker of this version with the time of a sync.
OldMetas ==
    { <<>>,
      [schema_version |-> <<"0">>],
      [schema_version |-> SCHEMA_VERSION, last_sync_utc |-> DateTime(0)] }

\* The records a store written before holds.
OldRecords ==
    { <<WithCode(Payload1, PyStr(Text111))>>,
      <<WithCode(Payload2, PyStr(<<"2">>)), WithCode(Payload1, PyStr(Text111))>> }

\* The store is not created, or it was written before.
InitOld ==
    /\ \/ tables = {} /\ products = <<>> /\ meta = <<>>
       \/ \E missing \in SUBSET NewerColumns : \E recs \in OldRecords :
             /\ tables = ProductColumns \ missing
             /\ products = [i \in 1..Len(recs) |->
                               Restrict(ProductRow(recs[i]), ProductColumns \ missing)]
             /\ meta \in OldMetas
    /\ meals = <<>>
    /\ meal_items = <<>>
    /\ meal_seq = 0
    /\ now = 0
    /\ wlock = 0
    /\ memo = <<>>
    /\ pc = [s \in Sessions |-> "idle"]
    /\ op = [s \in Sessions |-> "none"]
    /\ arg = [s \in Sessions |-> PyNone]
    /\ idx = [s \in Sessions |-> 0]
    /\ work = [s \in Sessions |-> <<>>]
    /\ base = [s \in Sessions |-> PyNone]
    /\ ret = [s \in Sessions |-> PyNone]

\* The values of `days` tried.
DaysInputs == {-1, 0, 1, 2}

\* The clock advances, in the specification of the consumed items, far
\* enough for a meal to leave the window.
TickLate ==
    /\ now < MaxLateNow
    /\ now' = now + 1
    /\ UNCHANGED <<store, wlock, memo, call>>

MealCodeInputs ==
    { PyStr(Text111), PyStr(<<" ", "1", "1", "1", " ">>), PyStr(<<"2">>), PyStr(<<" ">>) }

DeleteCodeInputs ==
    { PyStr(Text111), PyStr(<<" ", "2">>), PyStr(<<"9">>), PyStr(<<>>), PyNone }

(***************************************************************************)
(* The specifications.                                                     *)
(***************************************************************************)
\* One session works on the products: upserts of lists, and the reads.
Next ==
    \/ \E items \in Batches : upsert_call(1, items)
    \/ upsert_record(1)
    \/ upsert_commit(1)
    \/ upsert_again(1)
    \/ Reads(1)
    \/ Return(1)

Spec == Init /\ [][Next]_vars

\* The sync of update.main, the clock running, and a read.
NextSync ==
    \/ Tick
    \/ \E pages \in 1..MaxPages : sync_call(1, pages)
    \/ \E page \in SeqsUpTo(FewRecords, 1) : fetch_page(1, page)
    \/ upsert_record(1)
    \/ upsert_commit(1)
    \/ upsert_raise(1)
    \/ read_products_call(1, DEFAULT_LIMIT)
    \/ Return(1)

SpecSync == Init /\ [][NextSync]_vars

\* Session 1 upserts lists while session 2 reads.
NextConc ==
    \/ \E items \in SeqsUpTo(FewRecords, MaxBatch) : upsert_call(1, items)
    \/ upsert_record(1)
    \/ upsert_commit(1)
    \/ \E limit \in {1, DEFAULT_LIMIT} : read_products_call(2, limit)
    \/ search_call(2, <<"m", "I">>, DEFAULT_LIMIT)
    \/ get_codes_call(2, <<PyStr(<<"2">>), PyStr(Text111)>>)
    \/ \E name \in ReadOps : locked_call(2, name)
    \/ Return(1)
    \/ Return(2)

SpecConc == Init /\ [][NextConc]_vars

\* One session logs and deletes meals, the clock running; a product may be
\* in the cache or not.
NextMeals ==
    \/ Tick
    \/ \E codes \in SeqsUpTo(MealCodeInputs, MaxMealCodes) : add_meal(1, codes)
    \/ delete_today_call(1)
    \/ delete_today_exec(1)
    \/ delete_all_call(1)
    \/ delete_all_exec(1)
    \/ \E code \in DeleteCodeInputs : delete_code_from_all_meals(1, code)
    \/ upsert_call(1, <<WithCode(Payload1, PyStr(Text111))>>)
    \/ upsert_record(1)
    \/ upsert_commit(1)
    \/ Return(1)

SpecMeals == Init /\ [][NextMeals]_vars

\* One session logs meals over several days, a product comes to the cache,
\* and the consumed items are read.
NextConsumed ==
    \/ TickLate
    \/ \E codes \in SeqsUpTo({PyStr(Text111), PyStr(<<"2">>)}, MaxMealCodes) : add_meal(1, codes)
    \/ upsert_call(1, <<WithCode(Payload1, PyStr(Text111))>>)
    \/ upsert_record(1)
    \/ upsert_commit(1)
    \/ read_consumed_today_call(1)
    \/ \E days \in DaysInputs : read_consumed_since_call(1, days)
    \/ Return(1)

SpecConsumed == Init /\ [][NextConsumed]_vars

\* One session uses every operation of the store: upserts of lists, syncs
\* that may fail, the reads, and the meals.
NextStore ==
    \/ \E items \in SeqsUpTo(FewRecords, MaxBatch) : upsert_call(1, items)
    \/ sync_call(1, 1)
    \/ \E page \in SeqsUpTo(FewRecords, 1) : fetch_page(1, page)
    \/ upsert_record(1)
    \/ upsert_commit(1)
    \/ upsert_raise(1)
    \/ read_products_call(1, DEFAULT_LIMIT)
    \/ search_call(1, <<"m", "I">>, DEFAULT_LIMIT)
    \/ get_codes_call(1, <<PyStr(<<"2">>), PyStr(Text111)>>)
    \/ read_consumed_today_call(1)
    \/ read_consumed_since_call(1, 1)
    \/ \E codes \in SeqsUpTo({PyStr(Text111), PyStr(<<"2">>)}, MaxMealCodes) : add_meal(1, codes)
    \/ delete_today_call(1)
    \/ delete_today_exec(1)
    \/ delete_all_call(1)
    \/ delete_all_exec(1)
    \/ \E code \in {PyStr(Text111), PyStr(<<"2">>)} : delete_code_from_all_meals(1, code)
    \/ Return(1)

SpecStore == Init /\ [][NextStore]_vars

\* One session opens a store written before, or not created, with any of
\* its operations.
NextOld ==
    \/ read_meta_call(1)
    \/ \E items \in SeqsUpTo(FewRecords, 1) : upsert_call(1, items)
    \/ upsert_record(1)
    \/ upsert_commit(1)
    \/ read_products_call(1, DEFAULT_LIMIT)
    \/ search_call(1, <<"m", "I">>, DEFAULT_LIMIT)
    \/ get_codes_call(1, <<PyStr(<<"2">>), PyStr(Text111)>>)
    \/ read_consumed_since_call(1, 1)
    \/ \E codes \in SeqsUpTo({PyStr(Text111)}, 1) : add_meal(1, codes)
    \/ delete_all_call(1)
    \/ delete_all_exec(1)
    \/ \E code \in {PyStr(Text111), PyNone} : delete_code_from_all_meals(1, code)
    \/ Return(1)

SpecOld == InitOld /\ [][NextOld]_vars

\* Session 1 deletes meals while session 2 logs meals, the clock running.
NextMealsConc ==
    \/ Tick
    \/ delete_today_call(1)
    \/ delete_today_exec(1)
    \/ delete_all_call(1)
    \/ delete_all_exec(1)
    \/ \E codes \in SeqsUpTo({PyStr(Text111), PyStr(<<"2">>)}, MaxMealCodes) : add_meal(2, codes)
    \/ Return(1)
    \/ Return(2)

SpecMealsConc == Init /\ [][NextMealsConc]_vars

(***************************************************************************)
(* The properties.                                                         *)
(***************************************************************************)
\* An upsert of session s has returned its count.
UpsertDone(s) == pc[s] = "done" /\ op[s] = "upsert_products" /\ ret[s].k = "int"

CodesIn(tbl) == {tbl[i].code : i \in 1..Len(tbl)}

RowOf(tbl, code) == tbl[CHOOSE i \in 1..Len(tbl) : tbl[i].code = code]

\* The codes of the records of a batch that have one.
AcceptedCodes(items) == {CleanCode(items[i]) : i \in 1..Len(items)} \ {<<>>}

\* The last record of a batch with the code.
LastRecord(items, code) ==
    items[CHOOSE i \in 1..Len(items) :
             /\ CleanCode(items[i]) = code
             /\ \A j \in (i + 1)..Len(items) : CleanCode(items[j]) # code]

\* The value a record gives for a column: NULL or the number for the two
\* INTEGER columns, the text ("" when absent) for a TEXT column, the JSON
\* of the sub-object ({} when absent) or of the whole record for a blob.
ColumnsOf(p) ==
    [ last_modified_t    |-> _safe_int(Get(p, "last_modified_t")),
      product_name       |-> _safe_text(Get(p, "product_name")),
      brands             |-> _safe_text(Get(p, "brands")),
      categories         |-> _safe_text(Get(p, "categories")),
      countries          |-> _safe_text(Get(p, "countries")),
      nutriscore_grade   |-> _safe_text(Get(p, "nutriscore_grade")),
      ecoscore_grade     |-> _safe_text(Get(p, "ecoscore_grade")),
      nova_group         |-> _safe_int(Get(p, "nova_group")),
      ecoscore_data_json |-> Dumps(PyOr(Get(p, "ecoscore_data"), PyDict(<<>>))),
      nutriments_json    |-> Dumps(PyOr(Get(p, "nutriments"), PyDict(<<>>))),
      raw_json           |-> Dumps(PyDict(p)) ]

\* C1: after every upsert batch the products table holds one row per code,
\* its codes are those it held before and those the batch accepted, the row
\* of a code of the batch carries in every column and blob the values of the
\* last record of the batch with that code, and every other row is as it
\* was before the batch (whole-row last-write-wins).
C1_LastWriteWins ==
    /\ \A i, j \in 1..Len(products) : products[i].code = products[j].code => i = j
    /\ \A s \in Sessions :
          UpsertDone(s) =>
             LET items == arg[s].items
                 before == base[s].products
             IN  /\ CodesIn(products) = CodesIn(before) \cup AcceptedCodes(items)
                 /\ \A i \in 1..Len(products) :
                       LET row == products[i]
                       IN  IF row.code \in AcceptedCodes(items)
                           THEN \A col \in DOMAIN row \ {"code"} :
                                   row[col] = ColumnsOf(LastRecord(items, row.code))[col]
                           ELSE row = RowOf(before, row.code)

\* C1, its case: a batch of two records of code 111, last_modified_t 100
\* then 200, on a store that held an older row of 111, has left the single
\* row of 111 with last_modified_t 200.
C1_Witness ==
    /\ UpsertDone(1)
    /\ Len(arg[1].items) = 2
    /\ CleanCode(arg[1].items[1]) = Text111
    /\ CleanCode(arg[1].items[2]) = Text111
    /\ _safe_int(Get(arg[1].items[1], "last_modified_t")) = PyInt(100)
    /\ _safe_int(Get(arg[1].items[2], "last_modified_t")) = PyInt(200)
    /\ Text111 \in CodesIn(base[1].products)
    /\ Cardinality({i \in 1..Len(products) : products[i].code = Text111}) = 1
    /\ RowOf(products, Text111).last_modified_t = PyInt(200)

\* The products after the records of a batch were all applied.
RECURSIVE UpsertAll(_, _)
UpsertAll(tbl, items) ==
    IF items = <<>> THEN tbl
    ELSE LET front == UpsertAll(tbl, SubSeq(items, 1, Len(items) - 1))
             p == items[Len(items)]
         IN  IF CleanCode(p) = <<>> THEN front
             ELSE InsertOnConflict(front, ProductRow(p))

\* What a read may return on the products table tbl.
ReadResults(name, a, tbl) ==
    CASE name = "read_products_dataframe" -> read_products_dataframe(tbl, a.n)
      [] name = "search_products_by_name" ->
            search_products_by_name(tbl, a.query, a.limit)
      [] name = "get_products_by_codes" -> get_products_by_codes(tbl, a)
      [] OTHER -> {}

C3_FailedSyncAppliesNothing ==
    \A s \in Sessions :
       (pc[s] = "done" /\ op[s] = "sync" /\ ret[s].k = "raise") =>
          /\ products = base[s].products
          /\ Get(meta, "last_sync_utc") = Get(base[s].meta, "last_sync_utc")
          /\ wlock = 0
          /\ tables = ProductColumns

\* C3, its case: the sync failed on a later page after a record of an
\* earlier page was written in its transaction (a record that changes the
\* table), at a time other than that of the last sync.
C3_Witness ==
    /\ pc[1] = "done"
    /\ op[1] = "sync"
    /\ ret[1].k = "raise"
    /\ idx[1] >= 1
    /\ UpsertAll(base[1].products, arg[1].items) # base[1].products
    /\ "last_sync_utc" \in DOMAIN meta
    /\ meta["last_sync_utc"] # DateTime(now)

\* C4: when the upsert of one record is repeated, the products after the
\* second upsert are the products after the first.
C4_UpsertIdempotent ==
    \A s \in Sessions :
       (UpsertDone(s) /\ arg[s].again) => products = base[s].products

\* C4, its case: a record with a code, upserted twice over an older row of
\* its code.
C4_Witness ==
    /\ UpsertDone(1)
    /\ arg[1].again
    /\ ret[1] = PyInt(1)
    /\ Len(products) = 2
    /\ RowOf(products, CleanCode(arg[1].items[1])).raw_json
          = Dumps(PyDict(arg[1].items[1]))

\* A record whose code is missing, empty or only whitespace.
BlankCode(p) ==
    \/ "code" \notin DOMAIN p
    \/ p["code"].k = "str" /\ \A i \in 1..Len(p["code"].s) : p["code"].s[i] \in Whitespace

\* C5: an upsert returns the number of records of its batch whose code is
\* not missing, empty or blank; each of these has a row, no row has an
\* empty code, and no row comes from a record with a missing, empty or
\* blank code.
C5_BlankCodeSkipped ==
    \A s \in Sessions :
       UpsertDone(s) =>
          LET items == arg[s].items
          IN  /\ ret[s].n = Cardinality({i \in 1..Len(items) : ~BlankCode(items[i])})
              /\ \A i \in 1..Len(items) :
                    IF BlankCode(items[i])
                    THEN \A j \in 1..Len(products) :
                            products[j].raw_json # Dumps(PyDict(items[i]))
                    ELSE \E j \in 1..Len(products) :
                            products[j].code = Strip(Str(items[i]["code"]))
              /\ \A j \in 1..Len(products) :
                    \E i \in 1..Len(products[j].code) :
                       products[j].code[i] \notin Whitespace
              /\ Len(products) >= Len(base[s].products)
              /\ Len(products) <= Len(base[s].products) + ret[s].n

\* C5, its case: a batch of a record with a blank code and a record with a
\* new code has returned 1 and added one row.
C5_Witness ==
    /\ UpsertDone(1)
    /\ Len(arg[1].items) = 2
    /\ BlankCode(arg[1].items[1])
    /\ "code" \in DOMAIN arg[1].items[1]
    /\ ~BlankCode(arg[1].items[2])
    /\ ret[1] = PyInt(1)
    /\ Len(products) = Len(base[1].products) + 1

\* The codes of a list, trimmed.
Trimmed(codes) == {Strip(Str(codes[i])) : i \in 1..Len(codes)}

\* C10: get_products_by_codes returns once each stored product whose code
\* is (trimmed) in the list and no other row, and the codes of its rows are
\* in the order of the list: they are the codes at increasing positions of
\* the list.
C10_GetByCodesKeepsInputOrder ==
    \A s \in Sessions :
       (pc[s] = "done" /\ op[s] = "get_products_by_codes" /\ ret[s].k = "rows") =>
          LET out == ret[s].rows
              codes == arg[s]
              tbl == base[s].products
          IN  /\ {out[i].code : i \in 1..Len(out)} = CodesIn(tbl) \cap Trimmed(codes)
              /\ \A i, j \in 1..Len(out) : out[i].code = out[j].code => i = j
              /\ \A i \in 1..Len(out) :
                    LET row == RowOf(tbl, out[i].code)
                    IN  out[i] = [code |-> row.code, product_name |-> row.product_name,
                                  brands |-> row.brands, raw_json |-> row.raw_json]
              /\ \E f \in [1..Len(out) -> 1..Len(codes)] :
                    /\ \A i, j \in 1..Len(out) : i < j => f[i] < f[j]
                    /\ \A i \in 1..Len(out) : Strip(Str(codes[f[i]])) = out[i].code

\* C10, its case: three stored products asked for in an order that is not
\* the order of their rows in the table.
C10_Witness ==
    /\ pc[1] = "done"
    /\ op[1] = "get_products_by_codes"
    /\ Len(ret[1].rows) = 3
    /\ Len(products) = 3
    /\ ret[1].rows[1].code = products[2].code
    /\ ret[1].rows[2].code = products[1].code
    /\ ret[1].rows[3].code = products[3].code
    /\ \A i \in 1..3 : Strip(Str(arg[1][i])) = ret[1].rows[i].code

ItemsOfMeal(items, id) == SelectSeq(items, LAMBDA it : it.meal_id = id)

MealIds(ms) == {ms[i].id : i \in 1..Len(ms)}

\* C6: every stored meal has at least one item; and when
\* delete_code_from_all_meals has returned, no meal is stored whose items
\* all had the deleted code.
C6_NoMealWithoutItems ==
    /\ \A i \in 1..Len(meals) : ItemsOfMeal(meal_items, meals[i].id) # <<>>
    /\ \A s \in Sessions :
          (pc[s] = "done" /\ op[s] = "delete_code_from_all_meals") =>
             \A i \in 1..Len(base[s].meals) :
                LET m == base[s].meals[i]
                    its == ItemsOfMeal(base[s].meal_items, m.id)
                IN  (/\ arg[s].k = "str"
                     /\ Strip(arg[s].s) # <<>>
                     /\ \A j \in 1..Len(its) : its[j].code = Strip(arg[s].s))
                    => m.id \notin MealIds(meals)

\* C6, its case: delete_code_from_all_meals has removed the only item of a
\* meal, which is gone, and an item of another meal, which stays with its
\* other item.
C6_Witness ==
    /\ pc[1] = "done"
    /\ op[1] = "delete_code_from_all_meals"
    /\ ret[1] = PyInt(2)
    /\ Len(base[1].meals) = 2
    /\ Len(base[1].meal_items) = 3
    /\ Len(meals) = 1
    /\ Len(meal_items) = 1

\* C7: every meal item belongs to a stored meal; and when a delete of the
\* meals of today or of all meals has returned, the meals it deleted are
\* gone with all their items, and the other meals keep theirs.
C7_NoOrphanedItems ==
    /\ \A j \in 1..Len(meal_items) : meal_items[j].meal_id \in MealIds(meals)
    /\ \A s \in Sessions :
          /\ (pc[s] = "done" /\ op[s] = "delete_all_meals") =>
                meals = <<>> /\ meal_items = <<>>
          /\ (pc[s] = "done" /\ op[s] = "delete_meals_today") =>
                /\ MealIds(meals) = MealIds(base[s].meals) \ arg[s]
                /\ meal_items =
                      SelectSeq(base[s].meal_items, LAMBDA it : it.meal_id \notin arg[s])

\* C7, its case: delete_meals_today has deleted a meal of today with its
\* two items, and a meal of the day before is stored with its item.
C7_Witness ==
    /\ pc[1] = "done"
    /\ op[1] = "delete_meals_today"
    /\ ret[1] = PyInt(1)
    /\ Len(base[1].meal_items) = 3
    /\ Len(meals) = 1
    /\ Len(meal_items) = 1
    /\ meals[1].created_at_utc.date < DateTime(now).date

\* A code list that is empty, or holds only empty and blank texts.
NoCodeLeft(codes) ==
    \A i \in 1..Len(codes) :
       codes[i].k = "str" /\ \A j \in 1..Len(codes[i].s) : codes[i].s[j] \in Whitespace

\* C8: add_meal raises exactly when the list is empty or holds only blank
\* codes, and then the meals and the meal items are those before the call.
C8_EmptySelectionRejected ==
    \A s \in Sessions :
       (pc[s] = "done" /\ op[s] = "add_meal") =>
          /\ NoCodeLeft(arg[s]) <=> ret[s].k = "raise"
          /\ ret[s].k = "raise" =>
                /\ meals = base[s].meals
                /\ meal_items = base[s].meal_items

\* C8, its case: add_meal of a list of one blank code has raised, on a
\* store that holds a meal.
C8_Witness ==
    /\ pc[1] = "done"
    /\ op[1] = "add_meal"
    /\ Len(arg[1]) = 1
    /\ ret[1].k = "raise"
    /\ Len(meals) = 1
    /\ meal_seq = 1

\* The entries of a code list that are the code, once trimmed.
Occurrences(codes, code) ==
    Cardinality({i \in 1..Len(codes) : Strip(Str(codes[i])) = code})

\* C9: an add_meal that returns an id has added one meal, of that id, and
\* for every code as many items of that meal as the list has entries of the
\* code (blank entries are no code); the meals and items of before are
\* unchanged, whatever the products are.
C9_OneItemPerListedCode ==
    \A s \in Sessions :
       (pc[s] = "done" /\ op[s] = "add_meal" /\ ret[s].k = "int") =>
          LET new == ItemsOfMeal(meal_items, ret[s].n)
              n == Len(base[s].meal_items)
          IN  /\ Len(meals) = Len(base[s].meals) + 1
              /\ SubSeq(meals, 1, Len(meals) - 1) = base[s].meals
              /\ meals[Len(meals)].id = ret[s].n
              /\ ret[s].n \notin MealIds(base[s].meals)
              /\ SubSeq(meal_items, 1, n) = base[s].meal_items
              /\ SubSeq(meal_items, n + 1, Len(meal_items)) = new
              /\ Len(new) = Cardinality({i \in 1..Len(arg[s]) : ~NoCodeLeft(<<arg[s][i]>>)})
              /\ \A code \in Trimmed(arg[s]) \ {<<>>} :
                    Len(SelectSeq(new, LAMBDA it : it.code = code))
                       = Occurrences(arg[s], code)

\* C9, its case: add_meal of a list that names the code 111 twice, a code
\* no product has, has added a second meal with two items of 111.
C9_Witness ==
    /\ pc[1] = "done"
    /\ op[1] = "add_meal"
    /\ ret[1] = PyInt(2)
    /\ Len(arg[1]) = 2
    /\ Occurrences(arg[1], Text111) = 2
    /\ products = <<>>
    /\ Len(meals) = 2
    /\ Len(ItemsOfMeal(meal_items, 2)) = 2

\* The code a delete_code_from_all_meals call names: its argument trimmed
\* (no code for None).
NamedCode(a) == IF a.k = "str" THEN Strip(a.s) ELSE <<>>

\* C11: when delete_code_from_all_meals(code) has returned, the meal items
\* are those of before without the items of that code, in their order (no
\* item of another code is removed); the meals are those of before that
\* still have an item; and the number returned is the number of items of
\* before with that code.
C11_DeleteCodeRemovesItsItems ==
    \A s \in Sessions :
       (pc[s] = "done" /\ op[s] = "delete_code_from_all_meals") =>
          LET c == NamedCode(arg[s])
              before == base[s].meal_items
              hit == {j \in 1..Len(before) : before[j].code = c}
          IN  /\ \A j \in 1..Len(meal_items) : meal_items[j].code # c
              /\ \A other \in {before[j].code : j \in 1..Len(before)} \ {c} :
                    SelectSeq(meal_items, LAMBDA it : it.code = other)
                       = SelectSeq(before, LAMBDA it : it.code = other)
              /\ Len(meal_items) = Len(before) - Cardinality(hit)
              /\ \A i \in 1..Len(base[s].meals) :
                    LET m == base[s].meals[i]
                    IN  m.id \in MealIds(meals) <=>
                           \E j \in 1..Len(before) :
                              before[j].meal_id = m.id /\ before[j].code # c
              /\ MealIds(meals) \subseteq MealIds(base[s].meals)
              /\ ret[s] = PyInt(Cardinality(hit))

\* C11, its case: the code 2, named with a blank before it, was the only
\* item of one meal and one of the two items of another; both items are
\* removed, 2 is returned, and the other meal keeps its item of code 111.
C11_Witness ==
    /\ pc[1] = "done"
    /\ op[1] = "delete_code_from_all_meals"
    /\ arg[1] = PyStr(<<" ", "2">>)
    /\ ret[1] = PyInt(2)
    /\ Len(base[1].meals) = 2
    /\ Len(base[1].meal_items) = 3
    /\ Len(meals) = 1
    /\ meal_items = <<[meal_id |-> meals[1].id, code |-> Text111]>>

\* A delete of meals by session s returns in this step.
DeleteReturns(s) ==
    /\ pc[s] # "done"
    /\ pc'[s] = "done"
    /\ op'[s] \in {"delete_all_meals", "delete_meals_today"}

\* C12: whenever delete_all_meals or delete_meals_today returns, the number
\* it returns is the number of meals that its delete statements removed,
\* also when another session has committed an add_meal between the call's
\* read of the meals and its delete statements.
C12_DeleteReturnsMealsDeleted ==
    [][\A s \in Sessions :
          DeleteReturns(s) =>
             ret'[s] = PyInt(Cardinality(MealIds(meals) \ MealIds(meals')))]_vars

\* A read of the consumed items by session s has returned its rows.
ConsumedDone(s) ==
    /\ pc[s] = "done"
    /\ op[s] \in {"read_consumed_items_since", "read_consumed_items_today"}
    /\ ret[s].k = "rows"

\* The meals the read of session s selected.
SelectedMeals(s) ==
    IF op[s] = "read_consumed_items_today"
    THEN TodayWindow(meals, arg[s].now)
    ELSE SinceWindow(meals, arg[s].now, arg[s].days)

\* The rows are ordered by the meal's created_at_utc, descending.
CreatedDescending(rows) ==
    \A i, j \in 1..Len(rows) :
       i < j => Instant(rows[i].created_at_utc) >= Instant(rows[j].created_at_utc)

\* C13 as stated: the read returns one row per (meal, item) pair of the
\* selected meals, so a meal of the window with n items has n rows, ordered
\* by the meal's created_at_utc descending.
C13_OneRowPerMealItemPair ==
    \A s \in Sessions :
       ConsumedDone(s) =>
          /\ \A id \in SelectedMeals(s) :
                Len(SelectSeq(ret[s].rows, LAMBDA r : r.meal_id = id))
                   = Len(ItemsOfMeal(meal_items, id))
          /\ \A i \in 1..Len(ret[s].rows) : ret[s].rows[i].meal_id \in SelectedMeals(s)
          /\ CreatedDescending(ret[s].rows)

\* C13 amended: the read returns one row per (meal, item) pair of the
\* selected meals whose code is the code of a stored product: for every
\* selected meal and stored code, as many rows as the meal has items of the
\* code, each with the meal's created_at_utc; no row for an item whose code
\* no product has, none for another meal; ordered by created_at_utc
\* descending.
C13_OneRowPerItemOfStoredProduct ==
    \A s \in Sessions :
       ConsumedDone(s) =>
          LET rows == ret[s].rows
          IN  /\ \A id \in SelectedMeals(s) :
                    \A code \in CodesIn(meal_items) \cup CodesIn(products) :
                       Len(SelectSeq(rows, LAMBDA r : r.meal_id = id /\ r.code = code))
                          = IF code \in CodesIn(products)
                            THEN Len(SelectSeq(ItemsOfMeal(meal_items, id),
                                               LAMBDA it : it.code = code))
                            ELSE 0
              /\ \A i \in 1..Len(rows) :
                    /\ rows[i].meal_id \in SelectedMeals(s)
                    /\ rows[i].code \in CodesIn(products)
                    /\ \E k \in 1..Len(meals) :
                          /\ meals[k].id = rows[i].meal_id
                          /\ meals[k].created_at_utc = rows[i].created_at_utc
              /\ CreatedDescending(rows)

\* C13, its case: the product 111 was logged twice in the first meal and
\* once, beside a code no product has, in a later meal; the read of the
\* last day returns three rows, the one of the later meal first.
C13_Witness ==
    /\ ConsumedDone(1)
    /\ op[1] = "read_consumed_items_since"
    /\ arg[1].days = 1
    /\ Len(meals) = 2
    /\ Len(meal_items) = 4
    /\ Len(ret[1].rows) = 3
    /\ ret[1].rows[1].meal_id = 2
    /\ ret[1].rows[2].meal_id = 1
    /\ ret[1].rows[3].meal_id = 1
    /\ \A i \in 1..3 : ret[1].rows[i].code = Text111

\* read_consumed_items_since of session s has returned or raised.
SinceDone(s) == pc[s] = "done" /\ op[s] = "read_consumed_items_since"

\* The stored meals with an item of a stored product: those a read of the
\* consumed items can show.
ShowableMeals ==
    {meals[k] : k \in {i \in 1..Len(meals) :
                         \E j \in 1..Len(meal_items) :
                            /\ meal_items[j].meal_id = meals[i].id
                            /\ meal_items[j].code \in CodesIn(products)}}

\* The ids of the meals that have a row in the result of session s.
MealsShown(s) == {ret[s].rows[i].meal_id : i \in 1..Len(ret[s].rows)}

\* C14 as stated: read_consumed_since(days) fails exactly for days < 1, and
\* otherwise shows a meal exactly when it was created at or after the
\* instant `days` days before the call.
C14_SinceSelectsFromInstant ==
    \A s \in Sessions :
       SinceDone(s) =>
          /\ arg[s].days < 1 <=> ret[s].k = "raise"
          /\ ret[s].k = "rows" =>
                \A m \in ShowableMeals :
                   m.id \in MealsShown(s)
                      <=> Instant(m.created_at_utc) >= arg[s].now - arg[s].days * DayLen

\* C14 amended: read_consumed_since(days) fails exactly for days < 1, and
\* otherwise shows a meal exactly when the UTC calendar day of its creation
\* is on or after the UTC calendar day `days` days before the day of the
\* call, whatever the times of day are.
C14_SinceSelectsFromUtcDay ==
    \A s \in Sessions :
       SinceDone(s) =>
          /\ arg[s].days < 1 <=> ret[s].k = "raise"
          /\ ret[s].k = "rows" =>
                \A m \in ShowableMeals :
                   m.id \in MealsShown(s)
                      <=> m.created_at_utc.date >= DateTime(arg[s].now).date - arg[s].days

\* C14, its case: read for one day back, late on a day; the meal of two
\* days before is not shown, the meal of the day before is shown although
\* it was created more than one day before the call.
C14_Witness ==
    /\ SinceDone(1)
    /\ ret[1].k = "rows"
    /\ arg[1].days = 1
    /\ DateTime(arg[1].now).time > 0
    /\ Len(meals) = 2
    /\ ShowableMeals = {meals[1], meals[2]}
    /\ meals[1].created_at_utc.date = DateTime(arg[1].now).date - 2
    /\ meals[2].created_at_utc.date = DateTime(arg[1].now).date - 1
    /\ Instant(meals[2].created_at_utc) < arg[1].now - DayLen
    /\ MealsShown(1) = {meals[2].id}

\* Row a may stand before row b when ordered by last_modified_t descending,
\* unknown values last.
NewerFirst(a, b) ==
    \/ b.last_modified_t.k = "none"
    \/ /\ a.last_modified_t.k = "int"
       /\ a.last_modified_t.n >= b.last_modified_t.n

\* C15: read_products(limit) returns at most limit rows (all products when
\* no more than limit are stored), each a different stored product, ordered
\* by last_modified_t descending with the products without last_modified_t
\* after all others; and no product left out could stand before a product
\* returned: the rows are the limit first of that order.
C15_ReadProductsOrderedAndCapped ==
    \A s \in Sessions :
       (pc[s] = "done" /\ op[s] = "read_products_dataframe" /\ ret[s].k = "rows") =>
          LET rows == ret[s].rows
              tbl == base[s].products
              limit == arg[s].n
              out == {tbl[k] : k \in {i \in 1..Len(tbl) : tbl[i].code \notin CodesIn(rows)}}
          IN  /\ Len(rows) <= limit
              /\ Len(rows) = IF Len(tbl) > limit THEN limit ELSE Len(tbl)
              /\ \A i \in 1..Len(rows) :
                    /\ rows[i].code \in CodesIn(tbl)
                    /\ rows[i].last_modified_t = RowOf(tbl, rows[i].code).last_modified_t
                    /\ rows[i].product_name = RowOf(tbl, rows[i].code).product_name
              /\ \A i, j \in 1..Len(rows) :
                    i < j => rows[i].code # rows[j].code /\ NewerFirst(rows[i], rows[j])
              /\ \A p \in out : \A i \in 1..Len(rows) : NewerFirst(rows[i], p)

\* C15, its case: three products are stored, the first row of the table
\* without last_modified_t; read_products(2) returns the product of 200,
\* then the product of 100.
C15_Witness ==
    /\ pc[1] = "done"
    /\ op[1] = "read_products_dataframe"
    /\ arg[1] = PyInt(2)
    /\ Len(base[1].products) = 3
    /\ base[1].products[1].last_modified_t = PyNone
    /\ Len(ret[1].rows) = 2
    /\ ret[1].rows[1].last_modified_t = PyInt(200)
    /\ ret[1].rows[2].last_modified_t = PyInt(100)

\* The text holds q as a substring, the case of letters aside.
Contains(text, q) ==
    \E i \in 0..(Len(text) - Len(q)) :
       \A j \in 1..Len(q) : Fold(text[i + j]) = Fold(q[j])

\* C16: search_by_name(query, limit) returns no row for an empty or blank
\* query; otherwise its rows are products whose product_name contains the
\* trimmed query as a substring, case-insensitively: all of them when they
\* are no more than limit, else the limit first by last_modified_t
\* descending; in that order.
C16_SearchIsSubstringMatch ==
    \A s \in Sessions :
       (pc[s] = "done" /\ op[s] = "search_products_by_name" /\ ret[s].k = "rows") =>
          LET rows == ret[s].rows
              tbl == base[s].products
              q == Strip(arg[s].query)
              limit == arg[s].limit
              hits == {tbl[k] : k \in {i \in 1..Len(tbl) :
                                          Contains(tbl[i].product_name.s, q)}}
              out == {p \in hits : p.code \notin CodesIn(rows)}
          IN  IF q = <<>> THEN rows = <<>>
              ELSE /\ Len(rows) = IF Cardinality(hits) > limit THEN limit
                                  ELSE Cardinality(hits)
                   /\ \A i \in 1..Len(rows) :
                         /\ rows[i].code \in CodesIn(tbl)
                         /\ RowOf(tbl, rows[i].code) \in hits
                   /\ \A i, j \in 1..Len(rows) :
                         i < j => /\ rows[i].code # rows[j].code
                                  /\ NewerFirst(RowOf(tbl, rows[i].code),
                                                RowOf(tbl, rows[j].code))
                   /\ \A p \in out : \A i \in 1..Len(rows) :
                         NewerFirst(RowOf(tbl, rows[i].code), p)

\* C17: no step of any operation of the store (upsert, failed sync, read,
\* meal operation) removes a product: every code stored before the step is
\* stored after it.
C17_ProductNeverDeleted ==
    [][CodesIn(products) \subseteq CodesIn(products')]_vars

\* C17, its case: a product stored by an earlier upsert is still stored,
\* beside the product of a later upsert, after meals were logged and all
\* meals deleted.
C17_Witness ==
    /\ pc[1] = "done"
    /\ op[1] = "delete_all_meals"
    /\ ret[1] = PyInt(2)
    /\ meals = <<>>
    /\ meal_seq = 2
    /\ CodesIn(products) = {Text111, <<"2">>}
    /\ meta["last_sync_utc"] = DateTime(now)

\* The operations that write nothing but what init_db() writes.
OnlyReads ==
    {"read_meta", "read_products_dataframe", "search_products_by_name",
     "get_products_by_codes", "read_consumed_items_since", "read_consumed_items_today"}

\* The rows of before are the rows of now, column by column of before.
SameStoredValues(before, after) ==
    /\ Len(after) = Len(before)
    /\ \A i \in 1..Len(before) : \A c \in DOMAIN before[i] : after[i][c] = before[i][c]

\* C18: after any operation the schema exists and Meta holds a
\* schema_version: "1" when the store had none (a store not yet created
\* included), and the value it had otherwise; and an operation that only
\* reads, or add_meal failing, leaves every product value, meal, meal item
\* and Meta entry as it was, the seeded schema_version apart; read_meta
\* returns the Meta entries.
C18_InitIdempotent ==
    \A s \in Sessions :
       pc[s] = "done" =>
          /\ tables = ProductColumns
          /\ "schema_version" \in DOMAIN meta
          /\ meta["schema_version"] =
                IF "schema_version" \in DOMAIN base[s].meta
                THEN base[s].meta["schema_version"] ELSE SCHEMA_VERSION
          /\ (op[s] \in OnlyReads \/ ret[s].k = "raise") =>
                /\ SameStoredValues(base[s].products, products)
                /\ meals = base[s].meals
                /\ meal_items = base[s].meal_items
                /\ DOMAIN meta = DOMAIN base[s].meta \cup {"schema_version"}
                /\ \A key \in DOMAIN base[s].meta : meta[key] = base[s].meta[key]
          /\ op[s] = "read_meta" => ret[s] = PyDict(meta)

\* C18, its case: read_meta on a store that holds a product, a meal, and a
\* last-sync time beside its schema_version "1": initialization has run
\* again and read_meta returns the two entries, unchanged.
C18_Witness ==
    /\ pc[1] = "done"
    /\ op[1] = "read_meta"
    /\ base[1].meta = meta
    /\ ret[1] = PyDict([schema_version |-> SCHEMA_VERSION, last_sync_utc |-> DateTime(0)])
    /\ Len(products) = 2
    /\ Len(meals) = 1
    /\ meal_seq = 1

\* The upsert of session s completes in this step.
UpsertCompletes(s) == pc[s] = "upsert" /\ pc'[s] = "done" /\ ret'[s].k = "int"

\* The upsert of session s fails in this step.
UpsertFails(s) == pc[s] = "upsert" /\ pc'[s] = "done" /\ ret'[s].k = "raise"

\* C19: the step in which an upsert completes comes after all its records
\* were processed and sets the last-sync entry to the time of that step,
\* also when no record was accepted; the products and the last-sync entry
\* change in no other step, so the records and the timestamp are committed
\* together; and the step in which an upsert fails leaves Meta unchanged.
C19_LastSyncSetOnCommit ==
    [][/\ \A s \in Sessions :
            /\ UpsertCompletes(s) =>
                  /\ idx[s] = Len(arg[s].items)
                  /\ arg[s].left = 0
                  /\ Get(meta', "last_sync_utc") = DateTime(now)
                  /\ now' = now
            /\ UpsertFails(s) => meta' = meta
       /\ (products' # products \/ Get(meta', "last_sync_utc") # Get(meta, "last_sync_utc"))
             => \E s \in Sessions : UpsertCompletes(s)]_vars

\* C19, its case: a sync whose pages gave no record has completed with
\* count 0, at a later time than the sync before it, and the last-sync
\* entry is the later time.
C19_Witness ==
    /\ pc[1] = "done"
    /\ op[1] = "sync"
    /\ ret[1] = PyInt(0)
    /\ "last_sync_utc" \in DOMAIN base[1].meta
    /\ base[1].meta["last_sync_utc"] # DateTime(now)
    /\ meta["last_sync_utc"] = DateTime(now)
    /\ products = base[1].products

\* The codes the upsert of session s writes.
UpsertedCodes(s) ==
    IF op[s] = "upsert_products"
    THEN {CleanCode(arg[s].items[i]) : i \in 1..Len(arg[s].items)} \ {<<>>}
    ELSE {}

\* C20: after any operation on a store written before, the products table
\* has every column; every row of before is stored, in its place, with its
\* code, and, unless the operation upserted its code, with every value it
\* held and NULL in the columns it lacked; an upsert has succeeded and
\* stored its record with the values of the newer columns, and a read has
\* returned rows.
C20_MigrationKeepsRows ==
    \A s \in Sessions :
       pc[s] = "done" =>
          LET before == base[s].products
          IN  /\ tables = ProductColumns
              /\ \A i \in 1..Len(products) : DOMAIN products[i] = ProductColumns
              /\ Len(products) >= Len(before)
              /\ \A i \in 1..Len(before) :
                    /\ products[i].code = before[i].code
                    /\ before[i].code \notin UpsertedCodes(s) =>
                          /\ \A c \in DOMAIN before[i] : products[i][c] = before[i][c]
                          /\ \A c \in ProductColumns \ DOMAIN before[i] :
                                products[i][c] = PyNone
              /\ op[s] = "upsert_products" =>
                    /\ ret[s] = PyInt(Cardinality(UpsertedCodes(s)))
                    /\ \A i \in 1..Len(arg[s].items) :
                          CleanCode(arg[s].items[i]) # <<>> =>
                             RowOf(products, CleanCode(arg[s].items[i]))
                                = ProductRow(arg[s].items[i])
              /\ op[s] \in OnlyReads \ {"read_meta"} => ret[s].k = "rows"

\* C20, its case: a store whose products table lacked the three newer
\* columns held the product 111; an upsert of the product 2 has succeeded,
\* the row of 111 has NULL in the three columns and its name as before, and
\* the row of 2 holds its ecoscore grade.
C20_Witness ==
    /\ pc[1] = "done"
    /\ op[1] = "upsert_products"
    /\ ret[1] = PyInt(1)
    /\ Len(base[1].products) = 1
    /\ DOMAIN base[1].products[1] = ProductColumns \ NewerColumns
    /\ Len(products) = 2
    /\ products[1].code = Text111
    /\ products[1].product_name = base[1].products[1].product_name
    /\ \A c \in NewerColumns : products[1][c] = PyNone
    /\ products[2].code = <<"2">>
    /\ products[2].ecoscore_grade = PyStr(<<"b">>)

(***************************************************************************)
(* The derived metrics of the frames: records whose nutriments and         *)
(* ecoscore_data come in every shape the remote source may deliver.        *)
(***************************************************************************)
NutrimentsInputs ==
    { PyNone,
      PyDict(("energy-kcal_100g" :> PyTenths(0))
                @@ [sugars_100g |-> PyInt(0), salt_100g |-> PyStr(<<"0">>)]),
      PyDict(("energy-kcal_100g" :> PyList(<<>>))
                @@ [sugars_100g |-> PyStr(<<"n", "a">>), salt_100g |-> PyNone]),
      PyDict(("carbon-footprint_100g" :> PyTenths(50))
                @@ [sugars_100g |-> PyInt(7)]),
      PyDict("carbon-footprint_100g" :> PyInt(0)),
      PyStr(<<"x">>) }

EcoscoreInputs ==
    { PyNone,
      PyDict([agribalyse |-> PyDict([co2_total |-> PyTenths(2)])]),
      PyDict([agribalyse |-> PyDict([co2_total |-> PyStr(<<"3">>)])]),
      PyDict([agribalyse |-> PyNone]),
      PyList(<<PyInt(1)>>) }

MetricRecords ==
    { [ code            |-> PyStr(Text111),
        last_modified_t |-> PyInt(100),
        nutriments      |-> n,
        ecoscore_data   |-> e ] : n \in NutrimentsInputs, e \in EcoscoreInputs }
    \cup { [ code          |-> PyStr(<<"3">>),
              ecoscore_data |-> PyDict([agribalyse |-> PyDict([co2_total |-> PyTenths(2)])]) ],
            WithCode(Payload3, PyInt(2)) }

\* One session upserts records one at a time, logs meals of the product, and
\* reads the catalogue and the items consumed today.
NextMetrics ==
    \/ \E p \in MetricRecords : upsert_call(1, <<p>>)
    \/ upsert_record(1)
    \/ upsert_commit(1)
    \/ read_products_call(1, DEFAULT_LIMIT)
    \/ add_meal(1, <<PyStr(Text111)>>)
    \/ read_consumed_today_call(1)
    \/ Return(1)

SpecMetrics == Init /\ [][NextMetrics]_vars

\* The record the stored product of the code was last upserted from.
UpsertedRecord(tbl, code) == RowOf(tbl, code).raw_json.v.d

\* The value a record has for a nutriment: None when the record has no
\* nutriments mapping, or the mapping has no such key.
NutrimentOf(p, key) ==
    LET n == Get(p, "nutriments")
    IN  IF n.k = "dict" THEN Get(n.d, key) ELSE PyNone

\* A number equal to zero.
IsZero(v) == v = PyInt(0) \/ v = PyTenths(0)

\* A value that is no number and no text of a number.
Unparseable(v) ==
    \/ v.k \in {"list", "dict"}
    \/ v.k = "str" /\ \E i \in 1..Len(v.s) : ~IsDigit(v.s[i]) /\ v.s[i] \notin Whitespace

NutrientColumns ==
    { <<"sugars_100g", "sugars_100g">>,
      <<"salt_100g", "salt_100g">>,
      <<"energy-kcal_100g", "energy_kcal_100g">> }

\* C21: in the rows read_products returns, a nutrient (sugar, salt, energy)
\* is 0.0 when the product was upserted with the key present and equal to 0,
\* and null, never 0, when it was upserted without the key or with a value
\* that is no number.
C21_NullVersusZero ==
    \A s \in Sessions :
       (pc[s] = "done" /\ op[s] = "read_products_dataframe" /\ ret[s].k = "rows") =>
          \A i \in 1..Len(ret[s].rows) : \A c \in NutrientColumns :
             LET row == ret[s].rows[i]
                 v == NutrimentOf(UpsertedRecord(base[s].products, row.code), c[1])
             IN  /\ IsZero(v) => row[c[2]] = PyTenths(0)
                 /\ (v = PyNone \/ Unparseable(v)) => row[c[2]] = PyNone
                 /\ row[c[2]] = PyTenths(0) => (IsZero(v) \/ v = PyStr(<<"0">>))

\* C21, its cases: read_products returns a product upserted with sugars 0 and
\* energy 0.0, which have 0.0 in the row, and another upserted without
\* nutriments, whose sugars are null.
C21_Witness ==
    /\ pc[1] = "done"
    /\ op[1] = "read_products_dataframe"
    /\ \E i, j \in 1..Len(ret[1].rows) :
          /\ NutrimentOf(UpsertedRecord(base[1].products, ret[1].rows[i].code),
                         "energy-kcal_100g") = PyTenths(0)
          /\ ret[1].rows[i].sugars_100g = PyTenths(0)
          /\ ret[1].rows[i].energy_kcal_100g = PyTenths(0)
          /\ Get(UpsertedRecord(base[1].products, ret[1].rows[j].code), "nutriments") = PyNone
          /\ ret[1].rows[j].sugars_100g = PyNone

\* The life-cycle CO2 total of a record: None when the record has no
\* ecoscore_data object with an agribalyse object holding co2_total.
LifeCycleTotal(p) ==
    LET e == Get(p, "ecoscore_data")
    IN  IF e.k = "dict" /\ Get(e.d, "agribalyse").k = "dict"
        THEN Get(Get(e.d, "agribalyse").d, "co2_total")
        ELSE PyNone

IsNumber(v) == v.k \in {"int", "float"}

\* The tenths of a number.
TenthsOf(v) == IF v.k = "int" THEN 10 * v.n ELSE v.x

CarbonReadDone(s) ==
    /\ pc[s] = "done"
    /\ op[s] \in {"read_products_dataframe", "read_consumed_items_today"}
    /\ ret[s].k = "rows"

\* C22: in the rows of read_products and of the consumed items, the carbon
\* footprint is the direct per-100g nutriment when the product has one, 0
\* included, whatever its life-cycle figure (5.0 with a life-cycle total of
\* 0.2 gives 5.0); it is the life-cycle CO2 total times 100 when the product
\* has no direct value (0.2 gives 20.0); and it is null, not zero, when the
\* product has neither.
C22_CarbonPrecedence ==
    \A s \in Sessions :
       CarbonReadDone(s) =>
          \A i \in 1..Len(ret[s].rows) :
             LET p == UpsertedRecord(base[s].products, ret[s].rows[i].code)
                 direct == NutrimentOf(p, "carbon-footprint_100g")
                 total == LifeCycleTotal(p)
                 carbon == ret[s].rows[i].carbon_footprint_gco2e_100g
             IN  /\ IsNumber(direct) => carbon = PyTenths(TenthsOf(direct))
                 /\ (direct = PyNone /\ IsNumber(total)) =>
                       carbon = PyTenths(100 * TenthsOf(total))
                 /\ (direct = PyNone /\ total = PyNone) => carbon = PyNone

\* C22, its cases: read_products returns a product of direct value 5.0 and
\* life-cycle total 0.2 with 5.0, a product of life-cycle total 0.2 alone
\* with 20.0, and a product that has neither with null.
C22_Witness ==
    /\ pc[1] = "done"
    /\ op[1] = "read_products_dataframe"
    /\ \E i, j, n \in 1..Len(ret[1].rows) :
          LET p == UpsertedRecord(base[1].products, ret[1].rows[i].code)
              q == UpsertedRecord(base[1].products, ret[1].rows[j].code)
              r == UpsertedRecord(base[1].products, ret[1].rows[n].code)
          IN  /\ NutrimentOf(p, "carbon-footprint_100g") = PyTenths(50)
              /\ LifeCycleTotal(p) = PyTenths(2)
              /\ ret[1].rows[i].carbon_footprint_gco2e_100g = PyTenths(50)
              /\ NutrimentOf(q, "carbon-footprint_100g") = PyNone
              /\ LifeCycleTotal(q) = PyTenths(2)
              /\ ret[1].rows[j].carbon_footprint_gco2e_100g = PyTenths(200)
              /\ NutrimentOf(r, "carbon-footprint_100g") = PyNone
              /\ LifeCycleTotal(r) = PyNone
              /\ ret[1].rows[n].carbon_footprint_gco2e_100g = PyNone

(***************************************************************************)
(* The extractors of app.py over the raw blob of a product.                *)
(***************************************************************************)
\* str.upper() of one character (ASCII letters).
ToUpper(c) ==
    IF \E i \in 1..26 : Lower[i] = c
    THEN Upper[CHOOSE i \in 1..26 : Lower[i] = c]
    ELSE c

RECURSIVE FirstToken(_, _)
\* s.split(sep)[0]: the characters before the first sep.
FirstToken(s, sep) ==
    IF s = <<>> \/ Head(s) = sep THEN <<>>
    ELSE <<Head(s)>> \o FirstToken(Tail(s), sep)

RECURSIVE AfterFirst(_, _)
\* s.split(sep, 1)[-1]: the characters after the first sep, s without one.
AfterFirst(s, sep) ==
    IF \A i \in 1..Len(s) : s[i] # sep THEN s
    ELSE IF Head(s) = sep THEN Tail(s)
    ELSE AfterFirst(Tail(s), sep)

\* s.replace(a, b) of single characters.
Replace(s, a, b) == [i \in 1..Len(s) |-> IF s[i] = a THEN b ELSE s[i]]

\* s.title(): a letter after a non-letter in upper case, the others lower.
Title(s) ==
    [i \in 1..Len(s) |->
        IF i = 1 \/ ~(\E j \in 1..26 : Lower[j] = s[i - 1] \/ Upper[j] = s[i - 1])
        THEN ToUpper(s[i]) ELSE Fold(s[i])]

\* (obj.get(key) or "").strip(): AttributeError when obj has no .get, or the
\* value is truthy and has no .strip.
StrippedField(obj, key) ==
    IF obj.k # "dict" THEN Raised("AttributeError")
    ELSE LET v == PyOr(Get(obj.d, key), PyStr(<<>>))
         IN  IF v.k # "str" THEN Raised("AttributeError")
             ELSE PyStr(Strip(v.s))

\* The last step of _origin_country_from_raw: the first token of countries.
origin_fallback(fallback_countries) ==
    IF Truthy(fallback_countries)
    THEN PyStr(Strip(FirstToken(Str(fallback_countries), ",")))
    ELSE PyNone

\* _origin_country_from_raw(raw, fallback_countries)
_origin_country_from_raw(raw, fallback_countries) ==
    LET obj == IF LoadsRaises(raw) THEN PyDict(<<>>) ELSE Loads(raw)
        origins == StrippedField(obj, "origins")
        origins_tags == Get(obj.d, "origins_tags")
        mp == StrippedField(obj, "manufacturing_places")
    IN  IF ~Truthy(raw) THEN origin_fallback(fallback_countries)
        ELSE IF origins.k = "raise" THEN origins
        ELSE IF origins.s # <<>> THEN PyStr(Strip(FirstToken(origins.s, ",")))
        ELSE IF origins_tags.k = "list" /\ origins_tags.l # <<>>
        THEN LET tag == Str(origins_tags.l[1])
             IN  PyOr(PyStr(Strip(Title(Replace(AfterFirst(tag, ":"), "-", " ")))),
                      PyNone)
        ELSE IF mp.k = "raise" THEN mp
        ELSE IF mp.s # <<>> THEN PyStr(Strip(FirstToken(mp.s, ",")))
        ELSE origin_fallback(fallback_countries)

\* int(n): of an int, of a float (truncated), of a text that is a run of
\* digits; None stands for the error it raises otherwise.
IntOf(n) == IF n.k = "float" THEN PyInt(n.x \div 10) ELSE _safe_int(n)

\* _additives_count(raw)
_additives_count(raw) ==
    IF ~Truthy(raw) \/ LoadsRaises(raw) THEN PyInt(0)
    ELSE LET obj == Loads(raw)
         IN  IF obj.k # "dict" THEN Raised("AttributeError")
             ELSE LET tags == Get(obj.d, "additives_tags")
                      n == Get(obj.d, "additives_n")
                  IN  IF tags.k = "list" THEN PyInt(Len(tags.l))
                      ELSE IF n.k = "none" \/ IntOf(n).k = "none" THEN PyInt(0)
                      ELSE IntOf(n)

\* A key a raw product object does not have.
Absent == [k |-> "absent"]

\* The object of the keys of f that are not Absent.
ObjectOf(f) == PyDict([key \in {x \in DOMAIN f : f[x] # Absent} |-> f[key]])

OriginObjects ==
    { ObjectOf([origins |-> o, origins_tags |-> t, manufacturing_places |-> m]) :
        o \in {Absent, PyStr(<<" ">>), PyStr(<<"F", "r", ",", " ", "B", "e">>),
               PyList(<<PyStr(<<"F", "r">>)>>)},
        t \in {Absent, PyList(<<>>), PyList(<<PyStr(<<"e", "n", ":", "u", "-", "k">>)>>),
               PyList(<<PyStr(<<"e", "n", ":">>)>>), PyStr(<<"e", "n", ":", "f", "r">>)},
        m \in {Absent, PyStr(<<" ", "L", "y", "o", "n", ",", "F", "r">>), PyInt(5)} }

AdditiveObjects ==
    { ObjectOf([additives_tags |-> t, additives_n |-> n]) :
        t \in {Absent, PyList(<<>>), PyList(<<PyStr(<<"a">>), PyStr(<<"b">>)>>), PyStr(<<"a">>)},
        n \in {Absent, PyNone, PyInt(7), PyStr(<<" ", "3">>), PyTenths(37),
               PyStr(<<"3", ".", "5">>), PyList(<<PyInt(1)>>)} }

\* A text that is not JSON.
BadJson == [k |-> "text", s |-> <<"{", "o">>]

\* The raw_json texts: NULL, "", a text that is not JSON, JSON that is not
\* an object, and the objects.
RawInputs ==
    { PyNone, PyStr(<<>>), BadJson, Dumps(PyNone), Dumps(PyInt(5)),
      Dumps(PyList(<<PyInt(1)>>)), Dumps(PyStr(<<"x">>)) }
    \cup { Dumps(o) : o \in OriginObjects \cup AdditiveObjects }

\* The nutriments_json and ecoscore_data_json texts.
BlobInputs ==
    { PyNone, PyStr(<<>>), BadJson, Dumps(PyNone), Dumps(PyInt(5)),
      Dumps(PyList(<<PyInt(1)>>)) }
    \cup { Dumps(PyOr(n, PyDict(<<>>))) : n \in NutrimentsInputs }
    \cup { Dumps(PyOr(e, PyDict(<<>>))) : e \in EcoscoreInputs }

\* A function of the in-memory layer is applied: it reads no store.
Apply(s, name, a, r) ==
    /\ pc[s] = "idle"
    /\ pc' = [pc EXCEPT ![s] = "done"]
    /\ op' = [op EXCEPT ![s] = name]
    /\ arg' = [arg EXCEPT ![s] = a]
    /\ ret' = [ret EXCEPT ![s] = r]
    /\ UNCHANGED <<store, now, memo, wlock, idx, work, base>>

nutr_value_call(s, row, key) ==
    Apply(s, "nutr_value", [row |-> row, key |-> key], nutr_value(row, key))

carbon_from_ecoscore_call(s, row) ==
    Apply(s, "carbon_from_ecoscore", [row |-> row], carbon_from_ecoscore(row))

origin_country_call(s, raw, fallback_countries) ==
    Apply(s, "_origin_country_from_raw",
          [raw |-> raw, fallback_countries |-> fallback_countries],
          _origin_country_from_raw(raw, fallback_countries))

additives_count_call(s, raw) ==
    Apply(s, "_additives_count", [raw |-> raw], _additives_count(raw))

\* The extractors are applied to the blobs.
NextExtract ==
    \/ \E row \in BlobInputs :
          \E key \in {"sugars_100g", "salt_100g", "energy-kcal_100g", "carbon-footprint_100g"} :
             nutr_value_call(1, row, key)
    \/ \E row \in BlobInputs : carbon_from_ecoscore_call(1, row)
    \/ \E raw \in RawInputs :
          \E c \in {PyNone, PyStr(<<>>), PyStr(<<"B", "e", ",", "F", "r">>)} :
             origin_country_call(1, raw, c)
    \/ \E raw \in RawInputs : additives_count_call(1, raw)
    \/ Return(1)

SpecExtract == Init /\ [][NextExtract]_vars

ExtractorNames ==
    {"nutr_value", "carbon_from_ecoscore", "_origin_country_from_raw", "_additives_count"}

\* C23: no extractor (nutrient value, carbon footprint, origin country,
\* additives count) raises an error to its caller, whatever the blob holds:
\* a text that is not JSON, JSON that is not an object, fields of the wrong
\* type, missing keys.
C23_ExtractorsTotal ==
    \A s \in Sessions :
       (pc[s] = "done" /\ op[s] \in ExtractorNames) => ret[s].k # "raise"

\* The value a raw blob has for a key: None when the blob is no JSON object
\* or the object has no such key.
RawField(raw, key) ==
    IF raw.k = "json" /\ raw.v.k = "dict" THEN Get(raw.v.d, key) ELSE PyNone

\* The text of a field, stripped; empty when the field is absent.
FieldText(raw, key) ==
    IF RawField(raw, key).k = "str" THEN Strip(RawField(raw, key).s) ELSE <<>>

\* The blob has no list of origin tags, or an empty one.
NoOriginTag(raw) ==
    ~(RawField(raw, "origins_tags").k = "list" /\ RawField(raw, "origins_tags").l # <<>>)

\* The first origin tag, its language prefix stripped and de-slugified;
\* empty when there is no tag.
FirstOriginTag(raw) ==
    LET tags == RawField(raw, "origins_tags")
    IN  IF tags.k = "list" /\ tags.l # <<>>
        THEN Strip(Title(Replace(AfterFirst(Str(tags.l[1]), ":"), "-", " ")))
        ELSE <<>>

\* The blob is NULL, a text that is not JSON, or an object whose origins and
\* manufacturing_places are texts where present.
OriginWellTyped(raw) ==
    /\ raw.k = "json" => raw.v.k = "dict"
    /\ RawField(raw, "origins").k \in {"none", "str"}
    /\ RawField(raw, "manufacturing_places").k \in {"none", "str"}

OriginDone(s) ==
    /\ pc[s] = "done"
    /\ op[s] = "_origin_country_from_raw"
    /\ OriginWellTyped(arg[s].raw)

\* C24: the origin country is the first comma-separated token of the origins
\* text; without origins text, the first origin tag (language prefix
\* stripped, de-slugified); without a tag, the first token of the
\* manufacturing places; without those, the first token of countries; and it
\* is null only if all four are absent.
C24_OriginPrecedence ==
    \A s \in Sessions :
       OriginDone(s) =>
          LET raw == arg[s].raw
              origins == FieldText(raw, "origins")
              tag == FirstOriginTag(raw)
              places == FieldText(raw, "manufacturing_places")
              countries == IF arg[s].fallback_countries.k = "str"
                           THEN arg[s].fallback_countries.s ELSE <<>>
          IN  /\ origins # <<>> =>
                    ret[s] = PyStr(Strip(FirstToken(origins, ",")))
              /\ (origins = <<>> /\ tag # <<>>) => ret[s] = PyStr(tag)
              /\ (origins = <<>> /\ NoOriginTag(raw) /\ places # <<>>) =>
                    ret[s] = PyStr(Strip(FirstToken(places, ",")))
              /\ (origins = <<>> /\ NoOriginTag(raw)
                    /\ places = <<>> /\ countries # <<>>) =>
                    ret[s] = PyStr(Strip(FirstToken(countries, ",")))
              /\ ret[s] = PyNone =>
                    (origins = <<>> /\ tag = <<>> /\ places = <<>> /\ countries = <<>>)

(***************************************************************************)
(* The scores of the recap: grade to score, the mean over the rows, and    *)
(* the mean back to a grade.  A mean is held exactly, as a ratio.          *)
(***************************************************************************)
MaxGrades == 3       \* rows of the result set the mean is taken over
MaxScoreTenths == 60 \* the scores given to _score_to_grade: 0.0 .. 6.0

\* str.upper()
UpperText(s) == [i \in 1..Len(s) |-> ToUpper(s[i])]

\* mapping = {"A": 5, "B": 4, "C": 3, "D": 2, "E": 1}
GradeMapping ==
    (<<"A">> :> 5) @@ (<<"B">> :> 4) @@ (<<"C">> :> 3) @@ (<<"D">> :> 2) @@ (<<"E">> :> 1)

\* Mutant of _grade_to_score: the .upper() is left out.
_grade_to_score_case_sensitive(grade) ==
    IF ~Truthy(grade) THEN PyNone
    ELSE LET g == Strip(Str(grade))
         IN  IF g \in DOMAIN GradeMapping THEN PyTenths(10 * GradeMapping[g])
             ELSE PyNone

\* _grade_to_score(grade)
_grade_to_score(grade) ==
    IF ~Truthy(grade) THEN PyNone
    ELSE LET g == UpperText(Strip(Str(grade)))
         IN  IF g \in DOMAIN GradeMapping THEN PyTenths(10 * GradeMapping[g])
             ELSE PyNone

\* df[column].apply(_grade_to_score).astype("float64").fillna(3.0)
ScoreColumn(grades) ==
    [i \in 1..Len(grades) |->
        IF _grade_to_score(grades[i]).k = "none" THEN PyTenths(30)
        ELSE _grade_to_score(grades[i])]

RECURSIVE SumTenths(_)
SumTenths(col) ==
    IF col = <<>> THEN 0 ELSE Head(col).x + SumTenths(Tail(col))

\* Series.mean() of a column that is not empty: sum / count.
Mean(col) == [k |-> "ratio", num |-> SumTenths(col), den |-> 10 * Len(col)]

\* s >= t, for t given in tenths.
AtLeast(s, t) == IF s.k = "float" THEN s.x >= t ELSE s.num * 10 >= t * s.den

\* Mutant of _score_to_grade: the boundaries are exclusive.
_score_to_grade_exclusive(score_1_to_5) ==
    LET s == score_1_to_5
        Above(f, t) == IF f.k = "float" THEN f.x > t ELSE f.num * 10 > t * f.den
    IN  IF s.k \notin {"float", "ratio", "int"} THEN <<"?">>
        ELSE LET f == IF s.k = "int" THEN PyTenths(10 * s.n) ELSE s
             IN  IF Above(f, 45) THEN <<"A">>
                 ELSE IF Above(f, 35) THEN <<"B">>
                 ELSE IF Above(f, 25) THEN <<"C">>
                 ELSE IF Above(f, 15) THEN <<"D">>
                 ELSE <<"E">>

\* _score_to_grade(score_1_to_5)
_score_to_grade(score_1_to_5) ==
    LET s == score_1_to_5
    IN  IF s.k \notin {"float", "ratio", "int"} THEN <<"?">>
        ELSE LET f == IF s.k = "int" THEN PyTenths(10 * s.n) ELSE s
             IN  IF AtLeast(f, 45) THEN <<"A">>
                 ELSE IF AtLeast(f, 35) THEN <<"B">>
                 ELSE IF AtLeast(f, 25) THEN <<"C">>
                 ELSE IF AtLeast(f, 15) THEN <<"D">>
                 ELSE <<"E">>

\* The grades of the rows: NULL, "", the letters in either case, a letter
\* with blanks around it, and a word that is no grade.
GradeInputs ==
    { PyNone, PyStr(<<>>), PyStr(<<"A">>), PyStr(<<"b">>), PyStr(<<"C">>),
      PyStr(<<"d">>), PyStr(<<"e">>), PyStr(<<" ", "a", " ">>),
      PyStr(<<"u", "n", "k", "n", "o", "w", "n">>) }

\* score_sante / score_planete: the score column of the rows and its mean.
score_column_call(s, column, grades) ==
    Apply(s, column, PyList(grades),
          [k |-> "scores", col |-> ScoreColumn(grades), mean |-> Mean(ScoreColumn(grades))])

\* _render_key_indicators: the grade of the mean just computed.
grade_of_mean(s) ==
    /\ pc[s] = "done"
    /\ op[s] \in {"score_sante", "score_planete"}
    /\ op' = [op EXCEPT ![s] = "_score_to_grade"]
    /\ arg' = [arg EXCEPT ![s] = ret[s].mean]
    /\ ret' = [ret EXCEPT ![s] = PyStr(_score_to_grade(ret[s].mean))]
    /\ UNCHANGED <<store, now, memo, wlock, pc, idx, work, base>>

score_to_grade_call(s, score) ==
    Apply(s, "_score_to_grade", score, PyStr(_score_to_grade(score)))

NextGrades ==
    \/ \E grades \in UNION {[1..m -> GradeInputs] : m \in 1..MaxGrades} :
          \E column \in {"score_sante", "score_planete"} :
             score_column_call(1, column, grades)
    \/ grade_of_mean(1)
    \/ \E score \in {PyTenths(x) : x \in 0..MaxScoreTenths} \cup {PyNone, PyStr(<<"x">>)} :
          score_to_grade_call(1, score)
    \/ Return(1)

SpecGrades == Init /\ [][NextGrades]_vars

ScoresDone(s) == pc[s] = "done" /\ op[s] \in {"score_sante", "score_planete"}

\* A text in which none of the letters A..E stands, in either case.
NoGradeLetter(g) ==
    /\ g.k = "str"
    /\ \A i \in 1..Len(g.s) :
          g.s[i] \notin {"A", "B", "C", "D", "E", "a", "b", "c", "d", "e"}

\* C25: for the health and planet scores, the grades A, B, C, D, E, in
\* either letter case, score 5, 4, 3, 2, 1; an absent, empty or unmapped
\* grade scores the midpoint 3.0 and stays in the mean; so the mean over a
\* result set that is not empty is defined and lies in [1, 5].
C25_GradeToScore ==
    \A s \in Sessions :
       ScoresDone(s) =>
          LET grades == arg[s].l
              col == ret[s].col
              mean == ret[s].mean
          IN  /\ Len(col) = Len(grades)
              /\ \A i \in 1..Len(grades) :
                    /\ grades[i] \in {PyStr(<<"A">>), PyStr(<<"a">>)} => col[i] = PyTenths(50)
                    /\ grades[i] \in {PyStr(<<"B">>), PyStr(<<"b">>)} => col[i] = PyTenths(40)
                    /\ grades[i] \in {PyStr(<<"C">>), PyStr(<<"c">>)} => col[i] = PyTenths(30)
                    /\ grades[i] \in {PyStr(<<"D">>), PyStr(<<"d">>)} => col[i] = PyTenths(20)
                    /\ grades[i] \in {PyStr(<<"E">>), PyStr(<<"e">>)} => col[i] = PyTenths(10)
                    /\ (grades[i] = PyNone \/ NoGradeLetter(grades[i])) => col[i] = PyTenths(30)
                    /\ col[i].k = "float"
              /\ mean.k = "ratio"
              /\ mean.den = 10 * Len(grades)
              /\ mean.num = SumTenths(col)
              /\ mean.den <= mean.num
              /\ mean.num <= 5 * mean.den

\* C25, its case: the rows have the grades "A", none and "e"; the scores are
\* 5, 3 and 1, and the mean is 9 / 3.
C25_Witness ==
    /\ ScoresDone(1)
    /\ arg[1].l = <<PyStr(<<"A">>), PyNone, PyStr(<<"e">>)>>
    /\ ret[1].col = <<PyTenths(50), PyTenths(30), PyTenths(10)>>
    /\ ret[1].mean = [k |-> "ratio", num |-> 90, den |-> 30]

\* twice the score is at least h: the score is at least h / 2.
TwiceAtLeast(score, h) ==
    IF score.k = "float" THEN 2 * score.x >= 10 * h
    ELSE 2 * score.num * 10 >= 10 * h * score.den

GradeDone(s) ==
    /\ pc[s] = "done"
    /\ op[s] = "_score_to_grade"
    /\ arg[s].k \in {"float", "ratio"}

\* C26: a score s maps to A if s >= 4.5, else B if s >= 3.5, else C if
\* s >= 2.5, else D if s >= 1.5, else E, the boundaries included (4.6 gives
\* A, 3.5 gives B); and the score of each grade A..E maps back to the grade.
C26_ScoreToGrade ==
    \A s \in Sessions :
       GradeDone(s) =>
          /\ ret[s] = PyStr(IF TwiceAtLeast(arg[s], 9) THEN <<"A">>
                            ELSE IF TwiceAtLeast(arg[s], 7) THEN <<"B">>
                            ELSE IF TwiceAtLeast(arg[s], 5) THEN <<"C">>
                            ELSE IF TwiceAtLeast(arg[s], 3) THEN <<"D">>
                            ELSE <<"E">>)
          /\ arg[s] = PyTenths(46) => ret[s] = PyStr(<<"A">>)
          /\ arg[s] = PyTenths(35) => ret[s] = PyStr(<<"B">>)
          /\ \A g \in DOMAIN GradeMapping :
                arg[s] = _grade_to_score(PyStr(g)) => ret[s] = PyStr(g)

\* C26, its case: the rows have the grades "b" and "C", their mean is 3.5,
\* and the grade of the mean is B.
C26_Witness ==
    /\ GradeDone(1)
    /\ arg[1] = [k |-> "ratio", num |-> 70, den |-> 20]
    /\ ret[1] = PyStr(<<"B">>)

(***************************************************************************)
(* The catalogue of the reporting tab: _load_products_for_reporting is     *)
(* wrapped in st.cache_data, which remembers the result of a call under    *)
(* its arguments, for as long as the process lives (no ttl, and nothing in *)
(* app.py clears it).                                                      *)
(***************************************************************************)
_load_products_for_reporting(s, limit) ==
    /\ pc[s] = "idle"
    /\ IF limit \in DOMAIN memo
       THEN /\ pc' = [pc EXCEPT ![s] = "done"]
            /\ op' = [op EXCEPT ![s] = "_load_products_for_reporting"]
            /\ arg' = [arg EXCEPT ![s] = PyInt(limit)]
            /\ ret' = [ret EXCEPT ![s] = memo[limit]]
            /\ base' = [base EXCEPT ![s] = Snapshot]
            /\ UNCHANGED <<tables, products, meta, memo, idx>>
       ELSE \E r \in read_products_dataframe(Opened, limit) :
               /\ Enter(s, "_load_products_for_reporting", PyInt(limit), "done", Rows(r))
               /\ memo' = SetKey(memo, limit, Rows(r))
    /\ UNCHANGED <<meals, meal_items, meal_seq, now, wlock, work>>

\* _render_reporting_tab is drawn on every run of the script, and the
\* add-by-barcode flow upserts one fetched product at a time.
NextReporting ==
    \/ \E p \in FewRecords : upsert_call(1, <<p>>)
    \/ upsert_record(1)
    \/ upsert_commit(1)
    \/ _load_products_for_reporting(1, DEFAULT_LIMIT)
    \/ Return(1)

SpecReporting == Init /\ [][NextReporting]_vars

\* C27: a load of the catalogue for reporting returns the contents of the
\* committed store at the time of the load: after an upsert has committed,
\* no load returns a result remembered from a call made before the upsert.
C27_LoadReturnsCommitted ==
    \A s \in Sessions :
       (pc[s] = "done" /\ op[s] = "_load_products_for_reporting") =>
          \E r \in read_products_dataframe(base[s].products, arg[s].n) :
             ret[s] = Rows(r)

\* Session s completes a successful add_meal in this step.
MealAdded(s) ==
    /\ pc[s] = "idle"
    /\ pc'[s] = "done"
    /\ op'[s] = "add_meal"
    /\ ret'[s].k = "int"

\* C28: the id a successful add_meal returns is strictly greater than the id
\* of every meal created before it, deleted or not: the largest id ever
\* given (the sequence SQLite keeps for the AUTOINCREMENT key) never
\* decreases, no stored meal has an id above it, and the new meal's id is
\* above it; so no id is given twice.
C28_MealIdsMonotonic ==
    [][ /\ meal_seq' >= meal_seq
        /\ \A i \in 1..Len(meals) : meals[i].id <= meal_seq
        /\ \A s \in Sessions :
              MealAdded(s) =>
                 /\ ret'[s].n > meal_seq
                 /\ \A i \in 1..Len(meals) : ret'[s].n > meals[i].id
                 /\ meal_seq' = ret'[s].n
                 /\ \E i \in 1..Len(meals') : meals'[i].id = ret'[s].n
      ]_vars

\* C28, its case: the meal of id 1, the highest id, was deleted, and the
\* next add_meal returns 2.
C28_Witness ==
    /\ pc[1] = "done"
    /\ op[1] = "add_meal"
    /\ ret[1] = PyInt(2)
    /\ MealIds(meals) = {2}

(***************************************************************************)
(* fetch_product_by_code(code): one GET of the product, and the            *)
(* add-by-barcode flow of app.py, which upserts what the fetch returned.   *)
(* The remote source is a sequence of answers, one per request made.       *)
(***************************************************************************)
MaxAttempts == 2   \* answers the remote source has ready for one call

HttpResponse(status, body) == [k |-> "http", status |-> status, body |-> body]

\* sess.get raises: the connection, the TLS handshake or the timeout.
RequestFails(e) == [k |-> "fail", e |-> e]

\* The body of a product that exists, of one that does not, and bodies that
\* are not JSON.
ProductBody(p) == Dumps(PyDict([status |-> PyInt(1), product |-> PyDict(p)]))

Responses ==
    { HttpResponse(200, ProductBody(WithCode(Payload1, PyStr(Text111)))),
      HttpResponse(200, ProductBody(WithCode(Payload2, PyStr(<<"2">>)))),
      HttpResponse(200, ProductBody(Payload1)),
      HttpResponse(200, Dumps(PyDict([status |-> PyInt(0)]))),
      HttpResponse(200, BadJson),
      HttpResponse(304, PyStr(<<>>)),
      HttpResponse(404, Dumps(PyDict([status |-> PyInt(0)]))),
      HttpResponse(404, BadJson),
      HttpResponse(403, BadJson),
      HttpResponse(500, Dumps(PyDict([status |-> PyInt(0)]))),
      HttpResponse(503, ProductBody(WithCode(Payload1, PyStr(Text111)))),
      RequestFails("ConnectionError"),
      RequestFails("SSLError"),
      RequestFails("Timeout") }

\* Mutant of fetch_product_by_code: every status that is not a success is
\* taken for "not found", and a request that fails is made once more.
fetch_product_by_code_lenient(code, responses) ==
    LET c == Strip(Str(code))
        failed == responses[1].k = "fail" /\ Len(responses) > 1
        r == IF failed THEN responses[2] ELSE responses[1]
        n == IF failed THEN 2 ELSE 1
    IN  IF c = <<>> THEN [ret |-> PyNone, requests |-> 0]
        ELSE IF r.k = "fail" THEN [ret |-> Raised(r.e), requests |-> n]
        ELSE IF r.status >= 400 \/ r.body.k # "json" \/ Loads(r.body).k # "dict"
        THEN [ret |-> PyNone, requests |-> n]
        ELSE LET product == Get(Loads(r.body).d, "product")
             IN  IF product.k = "dict" /\ Truthy(Get(product.d, "code"))
                 THEN [ret |-> product, requests |-> n]
                 ELSE [ret |-> PyNone, requests |-> n]

\* fetch_product_by_code(code) when the remote source answers with
\* responses: what it returns or raises, and the requests it made.
fetch_product_by_code(code, responses) ==
    LET c == Strip(Str(code))
        r == responses[1]
    IN  IF c = <<>> THEN [ret |-> PyNone, requests |-> 0]
        ELSE IF r.k = "fail" THEN [ret |-> Raised(r.e), requests |-> 1]
        ELSE IF r.status = 404 THEN [ret |-> PyNone, requests |-> 1]
        ELSE IF r.status >= 400 /\ r.status < 600
        THEN [ret |-> Raised("HTTPError"), requests |-> 1]
        ELSE IF r.body.k # "json"
        THEN [ret |-> Raised("JSONDecodeError"), requests |-> 1]
        ELSE IF Loads(r.body).k # "dict"
        THEN [ret |-> Raised("AttributeError"), requests |-> 1]
        ELSE LET product == Get(Loads(r.body).d, "product")
             IN  IF product.k = "dict" /\ Truthy(Get(product.d, "code"))
                 THEN [ret |-> product, requests |-> 1]
                 ELSE [ret |-> PyNone, requests |-> 1]

fetch_by_code_call(s, code, responses) ==
    /\ pc[s] = "idle"
    /\ pc' = [pc EXCEPT ![s] = "done"]
    /\ op' = [op EXCEPT ![s] = "fetch_product_by_code"]
    /\ arg' = [arg EXCEPT ![s] = [code |-> code, responses |-> responses]]
    /\ idx' = [idx EXCEPT ![s] = fetch_product_by_code(code, responses).requests]
    /\ ret' = [ret EXCEPT ![s] = fetch_product_by_code(code, responses).ret]
    /\ base' = [base EXCEPT ![s] = Snapshot]
    /\ UNCHANGED <<store, now, memo, wlock, work>>

\* if p is not None: upsert_products([p])
upsert_fetched(s) ==
    /\ pc[s] = "done"
    /\ op[s] = "fetch_product_by_code"
    /\ ret[s].k = "dict"
    /\ wlock = 0
    /\ tables' = init_db_products(tables, products).columns
    /\ products' = init_db_products(tables, products).rows
    /\ meta' = init_db(meta)
    /\ pc' = [pc EXCEPT ![s] = "upsert"]
    /\ op' = [op EXCEPT ![s] = "upsert_products"]
    /\ arg' = [arg EXCEPT ![s] = [items |-> <<ret[s].d>>, left |-> 0, again |-> FALSE]]
    /\ idx' = [idx EXCEPT ![s] = 0]
    /\ ret' = [ret EXCEPT ![s] = PyInt(0)]
    /\ base' = [base EXCEPT ![s] = Snapshot]
    /\ UNCHANGED <<meals, meal_items, meal_seq, now, memo, wlock, work>>

\* The add-by-barcode flow: each listed code is fetched, and upserted when
\* the fetch returned a product.
NextFetch ==
    \/ \E code \in {PyStr(Text111), PyStr(<<" ", "2">>), PyStr(<<" ">>)} :
          \E responses \in UNION {[1..m -> Responses] : m \in 1..MaxAttempts} :
             fetch_by_code_call(1, code, responses)
    \/ upsert_fetched(1)
    \/ upsert_record(1)
    \/ upsert_commit(1)
    \/ Return(1)

SpecFetch == Init /\ [][NextFetch]_vars

\* Session s has made a by-code fetch with a code that is not blank, and the
\* call is over.
FetchDone(s) ==
    /\ pc[s] = "done"
    /\ op[s] = "fetch_product_by_code"
    /\ Strip(arg[s].code.s) # <<>>

\* The first answer of the remote source to the fetch of session s.
Answer(s) == arg[s].responses[1]

NotFoundAnswer(s) == Answer(s).k = "http" /\ Answer(s).status = 404

FailureAnswer(s) ==
    \/ Answer(s).k = "fail"
    \/ /\ Answer(s).k = "http"
       /\ Answer(s).status # 404
       /\ Answer(s).status \notin 200..299

MealOperations ==
    {"add_meal", "delete_meals_today", "delete_all_meals", "delete_code_from_all_meals"}

\* The store has its tables and its schema version.
Initialized == tables = ProductColumns /\ "schema_version" \in DOMAIN meta

\* This step is a step of an operation of the names, made by session s.
StepOf(s, names) ==
    /\ op'[s] \in names
    /\ pc'[s] # "idle"
    /\ <<pc[s], op[s], ret[s]>> # <<pc'[s], op'[s], ret'[s]>>

\* The ids of the meals of the UTC day on which the delete_meals_today of
\* session s selected them: the day of its SELECT, whose ids the DELETE uses.
TodayAtCall(s) == IF pc[s] = "idle" THEN TodayWindow(meals, now) ELSE arg[s]

\* The meals of ms created on another UTC day, for session s.
OtherDayMeals(ms, s) == SelectSeq(ms, LAMBDA m : m.id \notin TodayAtCall(s))

\* C30: on an initialized store, no step of add_meal, delete_meals_today,
\* delete_all_meals or delete_code_from_all_meals changes a product row or a
\* meta entry; no step of upsert_products changes a meal or a meal item,
\* the items of the upserted codes included; and delete_meals_today, which
\* selects the meals of the current UTC day, keeps the meals created on
\* another UTC day, with their items.
C30_ProductsAndMealsIndependent ==
    [][ \A s \in Sessions :
           /\ (Initialized /\ StepOf(s, MealOperations)) =>
                 (products' = products /\ meta' = meta /\ tables' = tables)
           /\ StepOf(s, {"upsert_products"}) =>
                 (meals' = meals /\ meal_items' = meal_items /\ meal_seq' = meal_seq)
           /\ (StepOf(s, {"delete_meals_today"}) /\ pc[s] = "idle" /\ pc'[s] = "delete_today") =>
                 arg'[s] = TodayWindow(meals, now)
           /\ StepOf(s, {"delete_meals_today"}) =>
                 /\ OtherDayMeals(meals', s) = OtherDayMeals(meals, s)
                 /\ \A i \in 1..Len(OtherDayMeals(meals, s)) :
                       ItemsOfMeal(meal_items', OtherDayMeals(meals, s)[i].id)
                          = ItemsOfMeal(meal_items, OtherDayMeals(meals, s)[i].id)
      ]_vars

\* C30, its case: a product and two meals of two days are stored, each meal
\* with an item of the product's code; delete_meals_today has deleted the
\* meal of the day and left the other meal, its item and the product.
C30_Witness ==
    /\ pc[1] = "done"
    /\ op[1] = "delete_meals_today"
    /\ ret[1] = PyInt(1)
    /\ Len(base[1].meals) = 2
    /\ Len(meals) = 1
    /\ meals[1].created_at_utc.date # DateTime(now).date
    /\ \E i \in 1..Len(meal_items) :
          meal_items[i].meal_id = meals[1].id /\ meal_items[i].code = Text111
    /\ Len(products) = 1
    /\ products = base[1].products
    /\ products[1].code = Text111

=============================================================================
